---- MODULE Spec2Model ----
(***************************************************************************)
(* Verification model of the flight router core:                           *)
(*   - the multi-criteria Dijkstra search (dijkstra/alg.py,                *)
(*     dijkstra/dominance.py, dijkstra/reconstruction.py,                  *)
(*     src/dijkstra/validation.py, src/dijkstra/labels.py);                *)
(*   - the flight graph repository with background refresh                 *)
(*     (src/flight_router/adapters/repositories/flight_graph_repo.py).     *)
(***************************************************************************)
EXTENDS Integers, Sequences, FiniteSets, TLC

VARIABLES
    \* ---- one search request (dijkstra) ----
    flights_df,        \* the flight table handed to dijkstra()
    start_city,
    required_cities,
    T_min,
    T_max,
    data_expander,     \* DijkstraRouteFinder._data_expander is configured
    min_stay_minutes,  \* minimum stay at a required city (dijkstra min_stay_minutes)
    flights_by_city,   \* dict: departure city -> rows of that city
    labels,            \* dict: (city, visited) -> list of labels
    pq,                \* the heap, as the set of labels it holds
    solutions,         \* list of goal labels, in pop order
    result,            \* return value of dijkstra()
    pc,                \* position of the search
    \* ---- the flight graph repository ----
    cache_graph,          \* InMemoryFlightGraphCache._graph
    auto_refresh,         \* FlightGraphRepository._auto_refresh
    refresh_in_progress,  \* FlightGraphRepository._refresh_in_progress
    refresh_lock,         \* holder of _refresh_lock, or Free
    executor_queue,       \* tasks submitted to the executor and not yet started
    wpc,                  \* position of the single executor thread
    w_df,                 \* executor thread: the table fetched by _build_graph
    w_graph,              \* executor thread: new_graph
    w_failed,             \* executor thread: the except branch was taken
    w_last_failed,        \* history: the refresh that finished last had failed
    tpc,                  \* position of each caller thread
    t_op,                 \* the operation each caller thread runs or ran last
    t_cached,             \* caller thread: local "cached"
    t_df,                 \* caller thread: the table fetched by the cold start
    t_ret,                \* what the last call of each thread returned or raised
    t_loaded,             \* history: a graph had been published when the call began
    t_cold_failed,        \* history: the cold-start build of the call failed
    ever_loaded,          \* history: some build has been published
    now,                  \* the clock read by datetime.now()
    executor_shutdown,    \* ThreadPoolExecutor._shutdown of the executor
    w_fetched_first,      \* history: the executor thread fetched its table before
                          \* the cold start that holds a table fetched its own
    w_superseded,         \* history: since the fetch of the executor thread a
                          \* later fetch was published or invalidate() was called
    c_superseded,         \* history: the same for the table of the cold start
    \* ---- one run of _build_graph on its own ----
    b_input,              \* the table the provider returned
    b_graph,              \* the graph built from it, or None
    \* ---- revalidation of one route against the live offer API ----
    segments,             \* route.segments, the input of validate_segments
    task,                 \* per segment: the validate_segment coroutine
    semaphore,            \* DuffelOfferValidator._semaphore: free slots
    completion_order,     \* history: segment positions in the order they finished
    validated_results,    \* return value of validate_segments, or None
    route_validation,     \* the aggregated RouteValidation, or None
    vpc,                  \* position of validate_route
    \* ---- one call of the flight data expander ----
    e_flights_df,         \* expand_for_date_range: the base table
    e_t_min,              \* expand_for_date_range: t_min
    e_t_max,              \* expand_for_date_range: t_max
    offsets,              \* what get_week_offsets_for_range returned
    expanded,             \* what expand_for_date_range returned
    epc                   \* position of the call, or the exception it raised

svars == <<flights_df, start_city, required_cities, T_min, T_max,
           min_stay_minutes, data_expander, flights_by_city, labels, pq, solutions, result, pc>>

cvars == <<cache_graph, auto_refresh, refresh_in_progress, refresh_lock,
           executor_queue, wpc, w_df, w_graph, w_failed, w_last_failed, tpc, t_op,
           t_cached,
           t_df, t_ret, t_loaded, t_cold_failed, ever_loaded, now,
           executor_shutdown, w_fetched_first, w_superseded, c_superseded>>

\* the history of the fetches
hvars == <<w_fetched_first, w_superseded, c_superseded>>

bvars == <<b_input, b_graph>>

vvars == <<segments, task, semaphore, completion_order, validated_results,
           route_validation, vpc>>

evars == <<e_flights_df, e_t_min, e_t_max, offsets, expanded, epc>>

vars == <<svars, cvars, bvars, vvars, evars>>

(***************************************************************************)
(* Bounds of the search inputs                                             *)
(***************************************************************************)
MaxFlights == 4

MaxSegs == MaxFlights + 1

Cities == {"A", "B", "C"}

Row(d, a, dt, at, p, id) ==
    [departure_airport |-> d, arrival_airport |-> a,
     dep_time |-> dt, arr_time |-> at, price |-> p, row |-> id]

\* Candidate rows of a flight table.  Every row satisfies the core schema
\* (no self loop, arr_time >= dep_time, price >= 0).  "row" is the row label
\* of the table: rows 4 and 10 are equal in every core column.
FlightPool ==
    << Row("A", "B", 0, 1, 1, 1),
       Row("A", "B", 3, 4, 0, 2),
       Row("B", "A", 1, 3, 3, 3),
       Row("B", "A", 4, 6, 1, 4),
       Row("A", "C", 0, 1, 1, 5),
       Row("C", "A", 1, 2, 2, 6),
       Row("B", "C", 1, 2, 0, 7),
       Row("C", "B", 2, 3, 1, 8),
       Row("C", "A", 4, 5, 0, 9),
       Row("B", "A", 4, 6, 1, 10),
       Row("A", "B", 1, 1, 2, 11),
       Row("B", "A", 1, 1, 2, 12) >>

TMinChoices == {0, 1}

TMaxChoices == {0, 5, 6}

\* the minimum stays a request may configure, in the time unit of the tables
MinStayChoices == {0, 1, 2}

RECURSIVE SubSeqOf(_, _)
SubSeqOf(s, keep) ==
    IF s = <<>> THEN <<>>
    ELSE IF Head(s).row \in keep
         THEN <<Head(s)>> \o SubSeqOf(Tail(s), keep)
         ELSE SubSeqOf(Tail(s), keep)

\* All flight tables with at most MaxFlights rows of the pool, in pool order.
FlightTables ==
    { SubSeqOf(FlightPool, keep) :
        keep \in { k \in SUBSET (1..Len(FlightPool)) : Cardinality(k) <= MaxFlights } }

SeqToSet(s) == { s[i] : i \in 1..Len(s) }

(***************************************************************************)
(* Labels (dijkstra/labels.py).  "path" is the chain of flight records     *)
(* reached through prev/flight, oldest first.                              *)
(***************************************************************************)
Label(city, time, visited, cost, path) ==
    [city |-> city, time |-> time, visited |-> visited, cost |-> cost, path |-> path]

\* dominates with "or" between the two comparisons
dominates_either(l1, l2) ==
    /\ l1.city = l2.city
    /\ l1.visited = l2.visited
    /\ (l1.time <= l2.time \/ l1.cost <= l2.cost)
    /\ (l1.time < l2.time \/ l1.cost < l2.cost)

\* dominance.py: dominates
dominates(l1, l2) ==
    /\ l1.city = l2.city
    /\ l1.visited = l2.visited
    /\ l1.time <= l2.time
    /\ l1.cost <= l2.cost
    /\ (l1.time < l2.time \/ l1.cost < l2.cost)

\* try_insert_label that appends without removing what the new label dominates
try_insert_label_no_removal(labels_at_state, new_label) ==
    IF \E i \in 1..Len(labels_at_state) : dominates(labels_at_state[i], new_label)
    THEN [inserted |-> FALSE, list |-> labels_at_state]
    ELSE [inserted |-> TRUE, list |-> Append(labels_at_state, new_label)]

\* alg.py: try_insert_label.  Returns the new list and the boolean result.
try_insert_label(labels_at_state, new_label) ==
    IF \E i \in 1..Len(labels_at_state) : dominates(labels_at_state[i], new_label)
    THEN [inserted |-> FALSE, list |-> labels_at_state]
    ELSE [inserted |-> TRUE,
          list |-> Append(SelectSeq(labels_at_state,
                                    LAMBDA e : ~dominates(new_label, e)),
                          new_label)]

\* get_feasible_indices without the test of the departure time
get_feasible_indices_any_departure(arrays, current_time, t_max) ==
    SelectSeq(arrays, LAMBDA r : r.arr_time <= t_max)

\* alg.py: CityFlightArrays.get_feasible_indices, as the rows it selects
get_feasible_indices(arrays, current_time, t_max) ==
    SelectSeq(arrays, LAMBDA r : r.dep_time >= current_time /\ r.arr_time <= t_max)

\* alg.py: CityFlightArrays.make_flight_record
make_flight_record(r, dep_airport) ==
    [departure_airport |-> dep_airport, arrival_airport |-> r.arrival_airport,
     dep_time |-> r.dep_time, arr_time |-> r.arr_time, price |-> r.price,
     row |-> r.row]

\* heap order of the entries (cost, time, label); src/dijkstra/labels.py
\* Label.__lt__ breaks ties of (cost, time) by id(), an arbitrary total order.
KeyLess(a, b) == a.cost < b.cost \/ (a.cost = b.cost /\ a.time < b.time)

HeapMinima(heap) == { l \in heap : \A m \in heap : ~KeyLess(m, l) }

\* alg.py lines 213-237: the for loop over the feasible flights of one label
RECURSIVE ExpandLabel(_, _, _, _)
ExpandLabel(label, feasible, labs, heap) ==
    IF feasible = <<>> THEN [labels |-> labs, pq |-> heap]
    ELSE LET r == Head(feasible)
             arr_airport == r.arrival_airport
             flight == make_flight_record(r, label.city)
             new_cost == label.cost + r.price
             new_visited == IF arr_airport \in required_cities
                            THEN label.visited \cup {arr_airport}
                            ELSE label.visited
             new_label == Label(arr_airport, r.arr_time, new_visited, new_cost,
                                Append(label.path, flight))
             key == <<arr_airport, new_visited>>
             ins == try_insert_label(labs[key], new_label)
         IN  IF ins.inserted
             THEN ExpandLabel(label, Tail(feasible),
                              [labs EXCEPT ![key] = ins.list],
                              heap \cup {new_label})
             ELSE ExpandLabel(label, Tail(feasible), labs, heap)

\* dominance.py: pareto_filter ------------------------------------------------
LabelKey(l) == <<l.city, l.visited>>

\* sorted(group, key=(cost, time)) is stable: insert after the last entry
\* whose key is not larger.
RECURSIVE InsertSorted(_, _)
InsertSorted(sorted, x) ==
    IF sorted = <<>> THEN <<x>>
    ELSE IF KeyLess(x, Head(sorted))
         THEN <<x>> \o sorted
         ELSE <<Head(sorted)>> \o InsertSorted(Tail(sorted), x)

RECURSIVE SortLabels(_)
SortLabels(group) ==
    IF group = <<>> THEN <<>>
    ELSE InsertSorted(SortLabels(SubSeq(group, 1, Len(group) - 1)),
                      group[Len(group)])

Infinity == 1000000

\* the sweep that never lowers min_time
RECURSIVE SkylineSweepNoUpdate(_, _)
SkylineSweepNoUpdate(sorted_labels, min_time) ==
    IF sorted_labels = <<>> THEN <<>>
    ELSE IF Head(sorted_labels).time < min_time
         THEN <<Head(sorted_labels)>> \o
              SkylineSweepNoUpdate(Tail(sorted_labels), min_time)
         ELSE SkylineSweepNoUpdate(Tail(sorted_labels), min_time)

\* dominance.py lines 59-63: keep the labels whose time strictly decreases
RECURSIVE SkylineSweep(_, _)
SkylineSweep(sorted_labels, min_time) ==
    IF sorted_labels = <<>> THEN <<>>
    ELSE IF Head(sorted_labels).time < min_time
         THEN <<Head(sorted_labels)>> \o
              SkylineSweep(Tail(sorted_labels), Head(sorted_labels).time)
         ELSE SkylineSweep(Tail(sorted_labels), min_time)

\* keys of the groups dict, in insertion order
RECURSIVE GroupKeys(_, _)
GroupKeys(ls, seen) ==
    IF ls = <<>> THEN <<>>
    ELSE IF LabelKey(Head(ls)) \in seen
         THEN GroupKeys(Tail(ls), seen)
         ELSE <<LabelKey(Head(ls))>> \o
              GroupKeys(Tail(ls), seen \cup {LabelKey(Head(ls))})

RECURSIVE FilterGroups(_, _)
FilterGroups(ls, keys) ==
    IF keys = <<>> THEN <<>>
    ELSE LET group == SelectSeq(ls, LAMBDA l : LabelKey(l) = Head(keys))
         IN  SkylineSweep(SortLabels(group), Infinity) \o FilterGroups(ls, Tail(keys))

pareto_filter(ls) ==
    IF ls = <<>> THEN <<>>
    ELSE FilterGroups(ls, GroupKeys(ls, {}))

\* reconstruction.py: reconstruct_path, the flights of a terminal label
reconstruct_path(label) == label.path

\* src/dijkstra/validation.py ---------------------------------------------------
AllAirports(df) ==
    { df[i].departure_airport : i \in 1..Len(df) } \cup
    { df[i].arrival_airport : i \in 1..Len(df) }

\* the validation without validate_flights_df
validate_without_empty_check(df, start, required, t_min, t_max) ==
    IF t_min > t_max THEN "InvalidTimeRangeError"
    ELSE IF start \notin AllAirports(df) THEN "InvalidAirportError"
    ELSE IF \E c \in required : c \notin AllAirports(df) THEN "InvalidAirportError"
    ELSE "ok"

\* validation.py lines 112-146: the four checks in their order
validate_dijkstra_inputs(df, start, required, t_min, t_max) ==
    IF df = <<>> THEN "EmptyFlightsError"
    ELSE IF t_min > t_max THEN "InvalidTimeRangeError"
    ELSE IF start \notin AllAirports(df) THEN "InvalidAirportError"
    ELSE IF \E c \in required : c \notin AllAirports(df) THEN "InvalidAirportError"
    ELSE "ok"

\* the caller's per-city lookup (dijkstra_adapter._build_flights_by_city_from_df)
GroupByCity(df) ==
    [c \in { df[i].departure_airport : i \in 1..Len(df) } |->
        SelectSeq(df, LAMBDA r : r.departure_airport = c)]

(***************************************************************************)
(* The search as a state machine                                           *)
(***************************************************************************)
\* the state at the call of dijkstra(), for the given choices of minimum stay
SearchInitWith(stays) ==
    /\ flights_df \in FlightTables
    /\ start_city = "A"
    /\ required_cities \in SUBSET (Cities \ {"A"})
    /\ T_min \in TMinChoices
    /\ T_max \in TMaxChoices
    /\ min_stay_minutes \in stays
    /\ data_expander = FALSE
    /\ flights_by_city = GroupByCity(flights_df)
    /\ labels = [k \in Cities \X (SUBSET required_cities) |-> <<>>]
    /\ pq = {}
    /\ solutions = <<>>
    /\ result = <<>>
    /\ pc = "validate"

\* a call that leaves min_stay_minutes at its default
SearchInit == SearchInitWith({0})

\* alg.py lines 179-194: validation, then the seed label
SearchStart ==
    /\ pc = "validate"
    /\ LET v == validate_dijkstra_inputs(flights_df, start_city, required_cities,
                                         T_min, T_max)
           start_label == Label(start_city, T_min, {}, 0, <<>>)
       IN  IF v # "ok"
           THEN /\ pc' = v
                /\ UNCHANGED <<labels, pq>>
           ELSE /\ pc' = "loop"
                /\ labels' = [labels EXCEPT ![<<start_city, {}>>] = <<start_label>>]
                /\ pq' = {start_label}
    /\ UNCHANGED <<flights_df, start_city, required_cities, T_min, T_max,
                   min_stay_minutes, data_expander, flights_by_city, solutions, result>>
    /\ UNCHANGED <<cvars, bvars, vvars, evars>>

\* the stay that the expansion adds to the arrival time before a flight may
\* leave: the configured minimum at a required city, nothing at the origin
\* or at a city that is only passed through
stay_minutes_for(city) ==
    IF city # start_city /\ city \in required_cities THEN min_stay_minutes ELSE 0

\* the goal test without the visited set
IsGoalCityOnly(label) == label.city = start_city /\ label.path # <<>>

\* alg.py line 202: the goal test
IsGoal(label) == label.city = start_city /\ label.visited = required_cities

\* alg.py lines 196-237: one iteration of the while loop
SearchPop ==
    /\ pc = "loop"
    /\ pq # {}
    /\ \E label \in HeapMinima(pq) :
         LET rest == pq \ {label} IN
         IF label.time > T_max
         THEN /\ pq' = rest
              /\ UNCHANGED <<labels, solutions>>
         ELSE IF IsGoal(label)
         THEN /\ pq' = rest
              /\ solutions' = Append(solutions, label)
              /\ UNCHANGED labels
         ELSE IF label.city \notin DOMAIN flights_by_city
         THEN /\ pq' = rest
              /\ UNCHANGED <<labels, solutions>>
         ELSE LET feasible == get_feasible_indices(flights_by_city[label.city],
                                  label.time + stay_minutes_for(label.city), T_max)
                  out == ExpandLabel(label, feasible, labels, rest)
              IN  /\ labels' = out.labels
                  /\ pq' = out.pq
                  /\ UNCHANGED solutions
    /\ UNCHANGED <<flights_df, start_city, required_cities, T_min, T_max,
                   min_stay_minutes, data_expander, flights_by_city, result, pc>>
    /\ UNCHANGED <<cvars, bvars, vvars, evars>>

\* alg.py line 239: the queue is empty, return pareto_filter(solutions)
SearchReturn ==
    /\ pc = "loop"
    /\ pq = {}
    /\ result' = pareto_filter(solutions)
    /\ pc' = "done"
    /\ UNCHANGED <<flights_df, start_city, required_cities, T_min, T_max,
                   min_stay_minutes, data_expander, flights_by_city, labels, pq, solutions>>
    /\ UNCHANGED <<cvars, bvars, vvars, evars>>

SearchNext == SearchStart \/ SearchPop \/ SearchReturn

(***************************************************************************)
(* The provider boundary in front of the search                            *)
(* (duffel_provider.py get_flights_df, schemas/flight.py)                  *)
(***************************************************************************)
\* Rows a data source may hold: two regular flights, a self loop, a negative
\* price, a flight that arrives before it departs, a negative departure time,
\* a second self loop, and a pair of free flights of which the return arrives
\* before it departs
RawPool ==
    << Row("A", "B", 0, 1, 1, 1),
       Row("B", "A", 1, 3, 3, 2),
       Row("B", "B", 1, 2, 1, 3),
       Row("A", "B", 0, 1, -1, 4),
       Row("B", "A", 3, 2, 1, 5),
       Row("A", "B", -1, 1, 1, 6),
       Row("A", "A", 0, 1, 2, 7),
       Row("A", "B", 2, 3, 0, 8),
       Row("B", "A", 3, 2, 0, 9) >>

RawTables ==
    { SubSeqOf(RawPool, keep) :
        keep \in { k \in SUBSET (1..Len(RawPool)) : Cardinality(k) <= MaxFlights } }

\* schemas/flight.py CoreFlightSchema: dep_time, arr_time and price are ge=0
CoreFlightSchema(df) ==
    \A i \in 1..Len(df) :
        df[i].dep_time >= 0 /\ df[i].arr_time >= 0 /\ df[i].price >= 0

IngestInit ==
    /\ flights_df \in RawTables
    /\ start_city = "A"
    /\ required_cities \in SUBSET {"B"}
    /\ T_min = 0
    /\ T_max \in {3, 6}
    /\ min_stay_minutes = 0
    /\ data_expander = FALSE
    /\ flights_by_city = GroupByCity(flights_df)
    /\ labels = [k \in Cities \X (SUBSET required_cities) |-> <<>>]
    /\ pq = {}
    /\ solutions = <<>>
    /\ result = <<>>
    /\ pc = "schema"

\* duffel_provider.py lines 194-198: CoreFlightSchema.validate(transformed);
\* a violation raises SchemaError and nothing downstream runs
ProviderValidate ==
    /\ pc = "schema"
    /\ pc' = IF CoreFlightSchema(flights_df) THEN "validate" ELSE "SchemaError"
    /\ UNCHANGED <<flights_df, start_city, required_cities, T_min, T_max,
                   min_stay_minutes, data_expander, flights_by_city, labels, pq, solutions, result>>
    /\ UNCHANGED <<cvars, bvars, vvars, evars>>

IngestNext == ProviderValidate \/ SearchStart \/ SearchPop \/ SearchReturn

(***************************************************************************)
(* Graph construction (flight_graph_repo.py)                               *)
(***************************************************************************)
\* Python None where a graph, a return value or an operation is expected
None == [none |-> TRUE]

Ok == [ok |-> TRUE]

Free == "free"

MaxRows == 3

MaxClock == 2

MaxQueued == 2

\* the TTL handed to InMemoryFlightGraphCache, in clock ticks
TTL == 1

\* order of the airport codes under string comparison
CityRank ==
    [c \in {"A", "B", "C", "P", "Q", "R", "S", "T"} |->
        CASE c = "A" -> 1 [] c = "B" -> 2 [] c = "C" -> 3 [] c = "P" -> 4
          [] c = "Q" -> 5 [] c = "R" -> 6 [] c = "S" -> 7 [] c = "T" -> 8]

EmptyDict == [c \in {} |-> 0]

CityIndex(start, end) == [start |-> start, end |-> end]

\* positions (0-based) where departure_airport differs from the row before
RECURSIVE ChangeIndices(_, _)
ChangeIndices(df, k) ==
    IF k > Len(df) THEN <<>>
    ELSE (IF k = 1 \/ df[k].departure_airport # df[k - 1].departure_airport
          THEN <<k - 1>> ELSE <<>>) \o ChangeIndices(df, k + 1)

\* flight_graph_repo.py lines 151-158: the loop over the boundaries; a later
\* assignment to index[city] replaces an earlier one
RECURSIVE IndexLoop(_, _, _, _)
IndexLoop(df, change_indices, i, index) ==
    IF i > Len(change_indices) THEN index
    ELSE LET start == change_indices[i]
             end == IF i + 1 <= Len(change_indices)
                    THEN change_indices[i + 1] ELSE Len(df)
             city == df[start + 1].departure_airport
         IN  IndexLoop(df, change_indices, i + 1,
                       (city :> CityIndex(start, end)) @@ index)

\* flight_graph_repo.py: build_city_index
build_city_index(df) ==
    IF df = <<>> THEN EmptyDict
    ELSE IndexLoop(df, ChangeIndices(df, 1), 1, EmptyDict)

IsSortedByDeparture(df) ==
    \A k \in 1..(Len(df) - 1) :
        CityRank[df[k].departure_airport] <= CityRank[df[k + 1].departure_airport]

\* the table left as it came
sort_values_skipped(df) == { df }

\* flight_graph_repo.py line 456: sort_values("departure_airport") followed by
\* reset_index; the default sort is not stable, so rows of one airport may
\* come out in any order
sort_values(df) ==
    { s \in { [k \in 1..Len(df) |-> df[f[k]]] : f \in Permutations(1..Len(df)) } :
        IsSortedByDeparture(s) }

\* flight_graph_repo.py: _compute_version, the hashed content
compute_version(df) ==
    IF df = <<>> THEN <<0>> ELSE <<Len(df), df[1], df[Len(df)]>>

\* flight_graph_repo.py lines 458-481: _build_graph after the sort
build_graph(sorted_df, built_at) ==
    [flights_df |-> sorted_df,
     city_index |-> build_city_index(sorted_df),
     airports   |-> AllAirports(sorted_df),
     routes     |-> { <<sorted_df[k].departure_airport, sorted_df[k].arrival_airport>> :
                        k \in 1..Len(sorted_df) },
     built_at   |-> built_at,
     version    |-> compute_version(sorted_df),
     row_count  |-> Len(sorted_df)]

\* every graph _build_graph can return for a fetched table
BuildGraphs(df, built_at) == { build_graph(s, built_at) : s \in sort_values(df) }

\* CachedFlightGraph.get_flights_for_city
get_flights_for_city(graph, city) ==
    IF city \notin DOMAIN graph.city_index THEN <<>>
    ELSE SubSeq(graph.flights_df, graph.city_index[city].start + 1,
                graph.city_index[city].end)

(***************************************************************************)
(* One run of _build_graph over every small table                          *)
(***************************************************************************)
RoutePairs == { x \in Cities \X Cities : x[1] # x[2] }

BuildTables ==
    UNION { { [k \in 1..n |-> Row(f[k][1], f[k][2], 0, 1, 1, k)] :
                f \in [1..n -> RoutePairs] } : n \in 0..MaxRows }

BuildInit ==
    /\ b_input \in BuildTables
    /\ b_graph = None

BuildOff ==
    /\ b_input = <<>>
    /\ b_graph = None

\* flight_graph_repo.py lines 438-481: _build_graph
BuildRun ==
    /\ b_graph = None
    /\ b_graph' \in BuildGraphs(b_input, 0)
    /\ UNCHANGED b_input
    /\ UNCHANGED <<svars, cvars, vvars, evars>>

(***************************************************************************)
(* The repository: caller threads and the single executor thread           *)
(***************************************************************************)
Threads == {"t1", "t2"}

GraphNotInitializedError == [error |-> "GraphNotInitializedError"]

\* tables the data provider may return; the first is not sorted
ProviderTables ==
    { << Row("B", "A", 0, 1, 1, 1), Row("A", "B", 1, 2, 1, 2) >>,
      << Row("A", "C", 0, 1, 2, 1) >> }

\* InMemoryFlightGraphCache.is_stale
is_stale ==
    IF cache_graph = None THEN TRUE
    ELSE now - cache_graph.built_at > TTL

CacheInit ==
    /\ cache_graph = None
    /\ auto_refresh \in BOOLEAN
    /\ refresh_in_progress = FALSE
    /\ refresh_lock = Free
    /\ executor_queue = 0
    /\ wpc = "idle"
    /\ w_df = <<>>
    /\ w_graph = None
    /\ w_failed = FALSE
    /\ w_last_failed = FALSE
    /\ tpc = [t \in Threads |-> "idle"]
    /\ t_op = [t \in Threads |-> "none"]
    /\ t_cached = [t \in Threads |-> None]
    /\ t_df = [t \in Threads |-> <<>>]
    /\ t_ret = [t \in Threads |-> None]
    /\ t_loaded = [t \in Threads |-> FALSE]
    /\ t_cold_failed = [t \in Threads |-> FALSE]
    /\ ever_loaded = FALSE
    /\ now = 0
    /\ executor_shutdown = FALSE
    /\ w_fetched_first = FALSE
    /\ w_superseded = FALSE
    /\ c_superseded = FALSE

CacheOff == CacheInit /\ auto_refresh = TRUE

SearchOff ==
    /\ flights_df = <<>>
    /\ start_city = "A"
    /\ required_cities = {}
    /\ T_min = 0
    /\ T_max = 0
    /\ min_stay_minutes = 0
    /\ data_expander = FALSE
    /\ flights_by_city = EmptyDict
    /\ labels = EmptyDict
    /\ pq = {}
    /\ solutions = <<>>
    /\ result = <<>>
    /\ pc = "off"

wvars == <<wpc, w_df, w_graph, w_failed, w_last_failed>>

\* the executor thread holds a fetched table that it has not published yet
WorkerHoldsTable == wpc \in {"build", "set"}

\* a cold start holds a fetched table that it has not published yet
ColdHoldsTable == \E t \in Threads : tpc[t] = "cold_set"

RuntimeError == [error |-> "RuntimeError"]

\* a caller enters get_graph()
CallGetGraph(t) ==
    /\ tpc[t] = "idle"
    /\ tpc' = [tpc EXCEPT ![t] = "get_read"]
    /\ t_op' = [t_op EXCEPT ![t] = "get_graph"]
    /\ t_cached' = [t_cached EXCEPT ![t] = None]
    /\ t_ret' = [t_ret EXCEPT ![t] = None]
    /\ t_loaded' = [t_loaded EXCEPT ![t] = ever_loaded]
    /\ t_cold_failed' = [t_cold_failed EXCEPT ![t] = FALSE]
    /\ UNCHANGED <<cache_graph, auto_refresh, refresh_in_progress, refresh_lock,
                   executor_queue, wvars, t_df, ever_loaded, now>>
    /\ UNCHANGED <<svars, bvars, vvars, evars, executor_shutdown, hvars>>

\* get_graph lines 372-374: cached = self._cache.get()
GetRead(t) ==
    /\ tpc[t] = "get_read"
    /\ t_cached' = [t_cached EXCEPT ![t] = cache_graph]
    /\ tpc' = [tpc EXCEPT ![t] = IF cache_graph # None THEN "get_stale" ELSE "cold_lock"]
    /\ UNCHANGED <<cache_graph, auto_refresh, refresh_in_progress, refresh_lock,
                   executor_queue, wvars, t_op, t_df, t_ret, t_loaded,
                   t_cold_failed, ever_loaded, now>>
    /\ UNCHANGED <<svars, bvars, vvars, evars, executor_shutdown, hvars>>

\* get_graph lines 377-379: the staleness check of the fast path
GetCheckStale(t) ==
    /\ tpc[t] = "get_stale"
    /\ IF auto_refresh /\ is_stale
       THEN /\ tpc' = [tpc EXCEPT ![t] = "trigger"]
            /\ UNCHANGED t_ret
       ELSE /\ tpc' = [tpc EXCEPT ![t] = "idle"]
            /\ t_ret' = [t_ret EXCEPT ![t] = t_cached[t]]
    /\ UNCHANGED <<cache_graph, auto_refresh, refresh_in_progress, refresh_lock,
                   executor_queue, wvars, t_op, t_cached, t_df, t_loaded,
                   t_cold_failed, ever_loaded, now>>
    /\ UNCHANGED <<svars, bvars, vvars, evars, executor_shutdown, hvars>>

\* what the caller gets when the trigger is over: get_graph returns cached
\* (line 379), force_refresh returns nothing
AfterTrigger(t) == IF t_op[t] = "get_graph" THEN t_cached[t] ELSE Ok

\* the trigger without the test of the flag
TriggerCheckNoFlag(t) ==
    /\ tpc[t] = "trigger"
    /\ refresh_lock = Free
    /\ refresh_in_progress' = TRUE
    /\ tpc' = [tpc EXCEPT ![t] = "submit"]
    /\ UNCHANGED t_ret
    /\ UNCHANGED <<cache_graph, auto_refresh, refresh_lock, executor_queue, wvars,
                   t_op, t_cached, t_df, t_loaded, t_cold_failed, ever_loaded, now>>
    /\ UNCHANGED <<svars, bvars, vvars, evars, executor_shutdown, hvars>>

\* _trigger_background_refresh lines 403-406, under _refresh_lock
TriggerCheck(t) ==
    /\ tpc[t] = "trigger"
    /\ refresh_lock = Free
    /\ IF refresh_in_progress
       THEN /\ tpc' = [tpc EXCEPT ![t] = "idle"]
            /\ t_ret' = [t_ret EXCEPT ![t] = AfterTrigger(t)]
            /\ UNCHANGED refresh_in_progress
       ELSE /\ refresh_in_progress' = TRUE
            /\ tpc' = [tpc EXCEPT ![t] = "submit"]
            /\ UNCHANGED t_ret
    /\ UNCHANGED <<cache_graph, auto_refresh, refresh_lock, executor_queue, wvars,
                   t_op, t_cached, t_df, t_loaded, t_cold_failed, ever_loaded, now>>
    /\ UNCHANGED <<svars, bvars, vvars, evars, executor_shutdown, hvars>>

\* _trigger_background_refresh line 409: self._executor.submit(...)
TriggerSubmit(t) ==
    /\ tpc[t] = "submit"
    /\ IF executor_shutdown
       THEN /\ t_ret' = [t_ret EXCEPT ![t] = RuntimeError]
            /\ UNCHANGED executor_queue
       ELSE /\ executor_queue < MaxQueued
            /\ executor_queue' = executor_queue + 1
            /\ t_ret' = [t_ret EXCEPT ![t] = AfterTrigger(t)]
    /\ tpc' = [tpc EXCEPT ![t] = "idle"]
    /\ UNCHANGED <<cache_graph, auto_refresh, refresh_in_progress, refresh_lock,
                   wvars, t_op, t_cached, t_df, t_loaded, t_cold_failed,
                   ever_loaded, now>>
    /\ UNCHANGED <<svars, bvars, vvars, evars, executor_shutdown, hvars>>

\* get_graph line 382: with self._refresh_lock
ColdLock(t) ==
    /\ tpc[t] = "cold_lock"
    /\ refresh_lock = Free
    /\ refresh_lock' = t
    /\ tpc' = [tpc EXCEPT ![t] = "cold_check"]
    /\ UNCHANGED <<cache_graph, auto_refresh, refresh_in_progress, executor_queue,
                   wvars, t_op, t_cached, t_df, t_ret, t_loaded, t_cold_failed,
                   ever_loaded, now>>
    /\ UNCHANGED <<svars, bvars, vvars, evars, executor_shutdown, hvars>>

\* get_graph lines 384-386: the double check under the lock
ColdCheck(t) ==
    /\ tpc[t] = "cold_check"
    /\ t_cached' = [t_cached EXCEPT ![t] = cache_graph]
    /\ IF cache_graph # None
       THEN /\ refresh_lock' = Free
            /\ tpc' = [tpc EXCEPT ![t] = "idle"]
            /\ t_ret' = [t_ret EXCEPT ![t] = cache_graph]
       ELSE /\ tpc' = [tpc EXCEPT ![t] = "cold_fetch"]
            /\ UNCHANGED <<refresh_lock, t_ret>>
    /\ UNCHANGED <<cache_graph, auto_refresh, refresh_in_progress, executor_queue,
                   wvars, t_op, t_df, t_loaded, t_cold_failed, ever_loaded, now>>
    /\ UNCHANGED <<svars, bvars, vvars, evars, executor_shutdown, hvars>>

\* get_graph lines 388-394 with _build_graph line 453: the provider call of the
\* cold start; when it raises, get_graph raises GraphNotInitializedError
ColdFetch(t) ==
    /\ tpc[t] = "cold_fetch"
    /\ \/ /\ \E df \in ProviderTables : t_df' = [t_df EXCEPT ![t] = df]
          /\ tpc' = [tpc EXCEPT ![t] = "cold_set"]
          /\ UNCHANGED <<refresh_lock, t_ret, t_cold_failed>>
          /\ w_fetched_first' = WorkerHoldsTable
          /\ c_superseded' = FALSE
          /\ UNCHANGED w_superseded
       \/ /\ refresh_lock' = Free
          /\ tpc' = [tpc EXCEPT ![t] = "idle"]
          /\ t_ret' = [t_ret EXCEPT ![t] = GraphNotInitializedError]
          /\ t_cold_failed' = [t_cold_failed EXCEPT ![t] = TRUE]
          /\ UNCHANGED t_df
          /\ UNCHANGED hvars
    /\ UNCHANGED <<cache_graph, auto_refresh, refresh_in_progress, executor_queue,
                   wvars, t_op, t_cached, t_loaded, ever_loaded, now>>
    /\ UNCHANGED <<svars, bvars, vvars, evars, executor_shutdown>>

\* _do_refresh lines 431-432: the rest of _build_graph, then self._cache.set
ColdSet(t) ==
    /\ tpc[t] = "cold_set"
    /\ cache_graph' \in BuildGraphs(t_df[t], now)
    /\ ever_loaded' = TRUE
    /\ w_superseded' = (w_superseded \/ (WorkerHoldsTable /\ w_fetched_first))
    /\ w_fetched_first' = FALSE
    /\ c_superseded' = FALSE
    /\ t_df' = [t_df EXCEPT ![t] = <<>>]
    /\ tpc' = [tpc EXCEPT ![t] = "cold_unlock"]
    /\ UNCHANGED <<auto_refresh, refresh_in_progress, refresh_lock, executor_queue,
                   wvars, t_op, t_cached, t_ret, t_loaded, t_cold_failed, now>>
    /\ UNCHANGED <<svars, bvars, vvars, evars, executor_shutdown>>

\* get_graph: leaving the with block of line 382
ColdUnlock(t) ==
    /\ tpc[t] = "cold_unlock"
    /\ refresh_lock' = Free
    /\ tpc' = [tpc EXCEPT ![t] = "cold_result"]
    /\ UNCHANGED <<cache_graph, auto_refresh, refresh_in_progress, executor_queue,
                   wvars, t_op, t_cached, t_df, t_ret, t_loaded, t_cold_failed,
                   ever_loaded, now>>
    /\ UNCHANGED <<svars, bvars, vvars, evars, executor_shutdown, hvars>>

\* get_graph lines 396-399: result = self._cache.get()
ColdResult(t) ==
    /\ tpc[t] = "cold_result"
    /\ tpc' = [tpc EXCEPT ![t] = "idle"]
    /\ t_ret' = [t_ret EXCEPT ![t] =
                   IF cache_graph = None THEN GraphNotInitializedError ELSE cache_graph]
    /\ UNCHANGED <<cache_graph, auto_refresh, refresh_in_progress, refresh_lock,
                   executor_queue, wvars, t_op, t_cached, t_df, t_loaded,
                   t_cold_failed, ever_loaded, now>>
    /\ UNCHANGED <<svars, bvars, vvars, evars, executor_shutdown, hvars>>

\* force_refresh line 494
CallForceRefresh(t) ==
    /\ tpc[t] = "idle"
    /\ tpc' = [tpc EXCEPT ![t] = "trigger"]
    /\ t_op' = [t_op EXCEPT ![t] = "force_refresh"]
    /\ t_cached' = [t_cached EXCEPT ![t] = None]
    /\ t_ret' = [t_ret EXCEPT ![t] = None]
    /\ t_loaded' = [t_loaded EXCEPT ![t] = ever_loaded]
    /\ t_cold_failed' = [t_cold_failed EXCEPT ![t] = FALSE]
    /\ UNCHANGED <<cache_graph, auto_refresh, refresh_in_progress, refresh_lock,
                   executor_queue, wvars, t_df, ever_loaded, now>>
    /\ UNCHANGED <<svars, bvars, vvars, evars, executor_shutdown, hvars>>

\* invalidate lines 496-498 with InMemoryFlightGraphCache.invalidate
CallInvalidate(t) ==
    /\ tpc[t] = "idle"
    /\ cache_graph' = None
    /\ w_superseded' = (w_superseded \/ WorkerHoldsTable)
    /\ c_superseded' = (c_superseded \/ ColdHoldsTable)
    /\ UNCHANGED w_fetched_first
    /\ t_op' = [t_op EXCEPT ![t] = "invalidate"]
    /\ t_cached' = [t_cached EXCEPT ![t] = None]
    /\ t_ret' = [t_ret EXCEPT ![t] = Ok]
    /\ t_loaded' = [t_loaded EXCEPT ![t] = ever_loaded]
    /\ t_cold_failed' = [t_cold_failed EXCEPT ![t] = FALSE]
    /\ UNCHANGED <<auto_refresh, refresh_in_progress, refresh_lock, executor_queue,
                   wvars, tpc, t_df, ever_loaded, now>>
    /\ UNCHANGED <<svars, bvars, vvars, evars, executor_shutdown>>

tvars == <<tpc, t_op, t_cached, t_df, t_ret, t_loaded, t_cold_failed>>

\* the executor thread (max_workers=1) takes the next submitted task
WorkerTake ==
    /\ wpc = "idle"
    /\ executor_queue > 0
    /\ executor_queue' = executor_queue - 1
    /\ wpc' = "fetch"
    /\ UNCHANGED <<cache_graph, auto_refresh, refresh_in_progress, refresh_lock,
                   w_df, w_graph, w_failed, w_last_failed, tvars, ever_loaded, now>>
    /\ UNCHANGED <<svars, bvars, vvars, evars, executor_shutdown, hvars>>

\* a failing refresh that also drops the cached graph
WorkerFetchFailureClears ==
    /\ wpc = "fetch"
    /\ \/ /\ \E df \in ProviderTables : w_df' = df
          /\ wpc' = "build"
          /\ w_fetched_first' = FALSE
          /\ w_superseded' = FALSE
          /\ UNCHANGED c_superseded
          /\ UNCHANGED <<w_failed, cache_graph>>
       \/ /\ w_failed' = TRUE
          /\ wpc' = "finally"
          /\ cache_graph' = None
          /\ UNCHANGED w_df
          /\ UNCHANGED hvars
    /\ UNCHANGED <<auto_refresh, refresh_in_progress, refresh_lock,
                   executor_queue, w_graph, w_last_failed, tvars, ever_loaded, now>>
    /\ UNCHANGED <<svars, bvars, vvars, evars, executor_shutdown>>

\* _background_refresh line 414 with _build_graph line 453: the provider call;
\* when it raises, the except branch of lines 423-425 runs
WorkerFetch ==
    /\ wpc = "fetch"
    /\ \/ /\ \E df \in ProviderTables : w_df' = df
          /\ wpc' = "build"
          /\ w_fetched_first' = FALSE
          /\ w_superseded' = FALSE
          /\ UNCHANGED c_superseded
          /\ UNCHANGED w_failed
       \/ /\ w_failed' = TRUE
          /\ wpc' = "finally"
          /\ UNCHANGED w_df
          /\ UNCHANGED hvars
    /\ UNCHANGED <<cache_graph, auto_refresh, refresh_in_progress, refresh_lock,
                   executor_queue, w_graph, w_last_failed, tvars, ever_loaded, now>>
    /\ UNCHANGED <<svars, bvars, vvars, evars, executor_shutdown>>

\* a build that stores the graph object in the cache before its index,
\* airports and routes are filled in
WorkerBuildInPlace ==
    /\ wpc = "build"
    /\ w_graph' \in BuildGraphs(w_df, now)
    /\ cache_graph' = [w_graph' EXCEPT !.city_index = EmptyDict,
                                        !.airports = {}, !.routes = {}]
    /\ wpc' = "set"
    /\ UNCHANGED <<auto_refresh, refresh_in_progress, refresh_lock,
                   executor_queue, w_df, w_failed, w_last_failed, tvars, ever_loaded,
                   now>>
    /\ UNCHANGED <<svars, bvars, vvars, evars, executor_shutdown, hvars>>

\* _background_refresh line 414: the rest of _build_graph, into new_graph
WorkerBuild ==
    /\ wpc = "build"
    /\ w_graph' \in BuildGraphs(w_df, now)
    /\ wpc' = "set"
    /\ UNCHANGED <<cache_graph, auto_refresh, refresh_in_progress, refresh_lock,
                   executor_queue, w_df, w_failed, w_last_failed, tvars, ever_loaded,
                   now>>
    /\ UNCHANGED <<svars, bvars, vvars, evars, executor_shutdown, hvars>>

\* _background_refresh line 417: self._cache.set(new_graph)
WorkerSet ==
    /\ wpc = "set"
    /\ cache_graph' = w_graph
    /\ c_superseded' = (c_superseded \/ (ColdHoldsTable /\ ~w_fetched_first))
    /\ w_fetched_first' = FALSE
    /\ w_superseded' = FALSE
    /\ ever_loaded' = TRUE
    /\ wpc' = "finally"
    /\ UNCHANGED <<auto_refresh, refresh_in_progress, refresh_lock, executor_queue,
                   w_df, w_graph, w_failed, w_last_failed, tvars, now>>
    /\ UNCHANGED <<svars, bvars, vvars, evars, executor_shutdown>>

\* the flag cleared on the success path only
WorkerFinallyOnSuccessOnly ==
    /\ wpc = "finally"
    /\ refresh_in_progress' = (IF w_failed THEN refresh_in_progress ELSE FALSE)
    /\ wpc' = "idle"
    /\ w_df' = <<>>
    /\ w_graph' = None
    /\ w_failed' = FALSE
    /\ w_last_failed' = w_failed
    /\ UNCHANGED <<cache_graph, auto_refresh, refresh_lock, executor_queue, tvars,
                   ever_loaded, now>>
    /\ UNCHANGED <<svars, bvars, vvars, evars, executor_shutdown, hvars>>

\* _background_refresh lines 426-427: finally, the flag is cleared
WorkerFinally ==
    /\ wpc = "finally"
    /\ refresh_in_progress' = FALSE
    /\ wpc' = "idle"
    /\ w_df' = <<>>
    /\ w_graph' = None
    /\ w_failed' = FALSE
    /\ w_last_failed' = w_failed
    /\ UNCHANGED <<cache_graph, auto_refresh, refresh_lock, executor_queue, tvars,
                   ever_loaded, now>>
    /\ UNCHANGED <<svars, bvars, vvars, evars, executor_shutdown, hvars>>

\* time passes
Tick ==
    /\ now < MaxClock
    /\ now' = now + 1
    /\ UNCHANGED <<cache_graph, auto_refresh, refresh_in_progress, refresh_lock,
                   executor_queue, wvars, tvars, ever_loaded>>
    /\ UNCHANGED <<svars, bvars, vvars, evars, executor_shutdown, hvars>>

CacheNext ==
    \/ \E t \in Threads :
          \/ CallGetGraph(t) \/ GetRead(t) \/ GetCheckStale(t)
          \/ TriggerCheck(t) \/ TriggerSubmit(t)
          \/ ColdLock(t) \/ ColdCheck(t) \/ ColdFetch(t) \/ ColdSet(t)
          \/ ColdUnlock(t) \/ ColdResult(t)
          \/ CallForceRefresh(t) \/ CallInvalidate(t)
    \/ WorkerTake \/ WorkerFetch \/ WorkerBuild \/ WorkerSet \/ WorkerFinally
    \/ Tick


\* shutdown line 502: self._executor.shutdown(wait=True) marks the executor as
\* shut down, then waits for the executor thread
CallShutdown(t) ==
    /\ tpc[t] = "idle"
    /\ executor_shutdown' = TRUE
    /\ tpc' = [tpc EXCEPT ![t] = "shutdown_join"]
    /\ t_op' = [t_op EXCEPT ![t] = "shutdown"]
    /\ t_cached' = [t_cached EXCEPT ![t] = None]
    /\ t_ret' = [t_ret EXCEPT ![t] = None]
    /\ t_loaded' = [t_loaded EXCEPT ![t] = ever_loaded]
    /\ t_cold_failed' = [t_cold_failed EXCEPT ![t] = FALSE]
    /\ UNCHANGED <<cache_graph, auto_refresh, refresh_in_progress, refresh_lock,
                   executor_queue, wvars, t_df, ever_loaded, now>>
    /\ UNCHANGED <<svars, bvars, vvars, evars, hvars>>

\* shutdown line 502: the executor thread has run every task submitted before
\* the shutdown and has exited; shutdown() returns
ShutdownJoin(t) ==
    /\ tpc[t] = "shutdown_join"
    /\ executor_queue = 0
    /\ wpc = "idle"
    /\ tpc' = [tpc EXCEPT ![t] = "idle"]
    /\ t_ret' = [t_ret EXCEPT ![t] = Ok]
    /\ UNCHANGED <<cache_graph, auto_refresh, refresh_in_progress, refresh_lock,
                   executor_queue, wvars, t_op, t_cached, t_df, t_loaded,
                   t_cold_failed, ever_loaded, now>>
    /\ UNCHANGED <<svars, bvars, vvars, evars, executor_shutdown, hvars>>

ShutdownNext ==
    \/ CacheNext
    \/ \E t \in Threads : CallShutdown(t) \/ ShutdownJoin(t)

(***************************************************************************)
(* The route finder adapter: prune, per-city lookup, search                *)
(* (dijkstra_adapter.py find_routes, src/dijkstra/prune.py)                *)
(***************************************************************************)
\* prune.py line 56: the default of max_dist
MaxDist == 2

\* airports of the rows that touch the frontier at either end
Neighbors(df, frontier) ==
    UNION { {df[i].departure_airport, df[i].arrival_airport} :
              i \in { k \in 1..Len(df) : df[k].departure_airport \in frontier
                                           \/ df[k].arrival_airport \in frontier } }

\* prune.py lines 14-35: the loop of build_reachable_airports
RECURSIVE ReachLoop(_, _, _, _)
ReachLoop(df, reachable, frontier, rounds) ==
    IF rounds = 0 \/ frontier = {} THEN reachable
    ELSE LET neighbors == Neighbors(df, frontier) \ reachable
         IN  IF neighbors = {} THEN reachable
             ELSE ReachLoop(df, reachable \cup neighbors, neighbors, rounds - 1)

\* prune.py: build_reachable_airports
build_reachable_airports(df, sources, max_dist) ==
    ReachLoop(df, sources, sources, max_dist)

\* prune.py: prune_flights_df
prune_flights_df(df, reachable) ==
    SelectSeq(df, LAMBDA r : r.departure_airport \in reachable
                              /\ r.arrival_airport \in reachable)

\* prune.py: prune_flights
prune_flights(df, start, required) ==
    prune_flights_df(df, build_reachable_airports(df, required \cup {start}, MaxDist))

\* dijkstra_adapter.py: _build_flights_by_city_from_index
build_flights_by_city_from_index(graph) ==
    [c \in DOMAIN graph.city_index |-> get_flights_for_city(graph, c)]

PruneCities == {"A", "B", "P", "Q", "R", "S", "T"}

\* Rows of the cached table, sorted by departure airport as _build_graph
\* leaves them: a chain A-P-Q-R-S-T-B, the way back B-A, a dear direct flight
\* A-B and a short cut P-B
PrunePool ==
    << Row("A", "P", 0, 1, 1, 1),
       Row("A", "B", 0, 1, 9, 2),
       Row("B", "A", 6, 7, 1, 3),
       Row("P", "Q", 1, 2, 1, 4),
       Row("P", "B", 1, 2, 1, 5),
       Row("Q", "R", 2, 3, 1, 6),
       Row("R", "S", 3, 4, 1, 7),
       Row("S", "T", 4, 5, 1, 8),
       Row("T", "B", 5, 6, 1, 9) >>

PruneTables == { SubSeqOf(PrunePool, keep) : keep \in SUBSET (1..Len(PrunePool)) }

\* find_routes is called with a cached graph; the window lies in the base
\* week, where expand_for_date_range returns the table as it is
AdapterInit ==
    /\ b_input \in PruneTables
    /\ b_graph = build_graph(b_input, 0)
    /\ flights_df = b_graph.flights_df
    /\ start_city = "A"
    /\ required_cities \in SUBSET {"B"}
    /\ T_min = 0
    /\ T_max = 7
    /\ min_stay_minutes = 0
    /\ data_expander \in BOOLEAN
    /\ flights_by_city = EmptyDict
    /\ labels = [k \in PruneCities \X (SUBSET required_cities) |-> <<>>]
    /\ pq = {}
    /\ solutions = <<>>
    /\ result = <<>>
    /\ pc = "find_routes"

\* dijkstra_adapter.py lines 109-144: prune, then the per-city lookup from
\* the pruned table (expander configured) or from the index of the graph
FindRoutesPrepare ==
    /\ pc = "find_routes"
    /\ flights_df' = prune_flights(b_graph.flights_df, start_city, required_cities)
    /\ flights_by_city' = IF data_expander
                          THEN GroupByCity(flights_df')
                          ELSE build_flights_by_city_from_index(b_graph)
    /\ pc' = "validate"
    /\ UNCHANGED <<start_city, required_cities, T_min, T_max, min_stay_minutes,
                   data_expander, labels, pq, solutions, result>>
    /\ UNCHANGED <<cvars, bvars, vvars, evars>>

AdapterNext == FindRoutesPrepare \/ SearchStart \/ SearchPop \/ SearchReturn

(***************************************************************************)
(* Revalidation of a route against the live offer API                      *)
(* (duffel_validator.py, route_validation_service.py)                      *)
(***************************************************************************)
\* ports/offer_validator.py: ValidationStatus
CONFIRMED == "confirmed"

PRICE_CHANGED == "price_changed"

UNAVAILABLE == "unavailable"

API_ERROR == "api_error"

\* schemas/validation.py: ValidationConfig.  The two caps are kept small;
\* the thresholds are the defaults.
max_retries == 2

max_concurrent_requests == 1

price_confirmed_threshold == 5

price_changed_threshold == 25

min_confidence_threshold == 30

\* schemas/validation.py: MatchingWeights
non_stop == 20

carrier_match == 50

hour_exact == 30

hour_close == 20

price_exact == 30

price_close == 15

carrier_mismatch_penalty == -20

hour_outside_penalty == -30

price_outside_penalty == -50

per_stop_penalty == -10

max_score == non_stop + carrier_match + hour_exact + price_exact

Abs(x) == IF x < 0 THEN -x ELSE x

\* A cached segment of a route.  Prices are whole currency units, for which
\* the float arithmetic of the validator is exact at the thresholds.
RouteSegment(index, price) ==
    [segment_index |-> index, dep_time |-> 600, price |-> price, carrier_code |-> "LO"]

\* The routes handed to validate_route: one or two segments, a priced and a
\* free one (the flight schema admits price 0)
RoutePool ==
    { << RouteSegment(0, 100) >>,
      << RouteSegment(0, 0) >>,
      << RouteSegment(0, 100), RouteSegment(1, 100) >>,
      << RouteSegment(0, 100), RouteSegment(1, 0) >> }

\* One offer of a live response: the carrier and the departure hour of its
\* first segment, its stops and its total amount; malformed stands for an
\* offer _score_offer cannot parse
Offer(id, carrier, hour, stops, amount, malformed) ==
    [id |-> id, carrier |-> carrier, hour |-> hour, num_stops |-> stops,
     total_amount |-> amount, malformed |-> malformed]

OfferPool ==
    << Offer(1, "LO", 10, 0, 100, FALSE),
       Offer(2, "LO", 10, 0, 105, FALSE),
       Offer(3, "LO", 10, 0, 106, FALSE),
       Offer(4, "LO", 10, 0, 125, FALSE),
       Offer(5, "LO", 10, 0, 126, FALSE),
       Offer(6, "LO", 10, 0, 50, FALSE),
       Offer(7, "VY", 13, 1, 100, FALSE),
       Offer(8, "ZZ", 10, 0, 100, FALSE),
       Offer(9, "LO", 10, 0, 100, TRUE) >>

\* the offers list of a 2xx response: none, one, or two offers of the pool
OfferLists ==
    { <<>> } \cup { << OfferPool[i] >> : i \in 1..Len(OfferPool) }
      \cup { << OfferPool[i], OfferPool[j] >> : i, j \in 1..Len(OfferPool) }

\* What one POST /air/offer_requests can come back with
Response(kind, offers) == [kind |-> kind, offers |-> offers]

Responses ==
    { Response("ok", l) : l \in OfferLists }
      \cup { Response(k, <<>>) : k \in {"rate_limited", "http_error", "timeout", "exception"} }

\* duffel_validator.py: _is_placeholder_offer
is_placeholder_offer(offer) == offer.carrier = "ZZ"

\* duffel_validator.py: _score_offer; the result is the set holding the
\* OfferMatch, empty for None
score_offer(offer, segment, expected_carrier, expected_hour) ==
    IF offer.malformed THEN {}
    ELSE LET hour_diff == Abs(offer.hour - expected_hour)
             stop_bonus == IF offer.num_stops = 0 THEN non_stop ELSE 0
             carrier == IF offer.carrier = expected_carrier
                        THEN carrier_match ELSE carrier_mismatch_penalty
             hour == IF hour_diff = 0 THEN hour_exact
                     ELSE IF hour_diff <= 1 THEN hour_close
                     ELSE hour_outside_penalty
             diff == 100 * Abs(offer.total_amount - segment.price)
             price == IF segment.price > 0
                      THEN IF diff <= 5 * segment.price THEN price_exact
                           ELSE IF diff <= 25 * segment.price THEN price_close
                           ELSE price_outside_penalty
                      ELSE 0
         IN  { [offer_id |-> offer.id, price |-> offer.total_amount,
                score |-> stop_bonus + carrier + hour + price
                            + offer.num_stops * per_stop_penalty] }

\* duffel_validator.py lines 353-369: the loop of _find_best_match
RECURSIVE BestMatchLoop(_, _, _, _)
BestMatchLoop(segment, offers, k, best) ==
    IF k > Len(offers) THEN best
    ELSE LET match == score_offer(offers[k], segment, segment.carrier_code,
                                  (segment.dep_time % 1440) \div 60)
         IN  IF match # {} /\ (best = {} \/ \A m \in match : \A b \in best : m.score > b.score)
             THEN BestMatchLoop(segment, offers, k + 1, match)
             ELSE BestMatchLoop(segment, offers, k + 1, best)

\* duffel_validator.py: _find_best_match
find_best_match(segment, offers) == BestMatchLoop(segment, offers, 1, {})

\* OfferMatch.confidence, in units of 1/max_score of a percent
confidence(match) ==
    LET scaled == match.score * 100
    IN  IF scaled < 0 THEN 0 ELSE IF scaled > 100 * max_score THEN 100 * max_score ELSE scaled

\* ports/offer_validator.py: SegmentValidation; live_price and offer_id are
\* sets of at most one element (Optional)
SegmentValidation(segment, status, conf, live_price, offer_id) ==
    [segment_index |-> segment.segment_index, status |-> status, confidence |-> conf,
     cached_price |-> segment.price, live_price |-> live_price, offer_id |-> offer_id]

\* duffel_validator.py lines 227-237: price_change_pct <= threshold
price_change_within(match, segment, threshold) ==
    IF segment.price > 0
    THEN 100 * Abs(match.price - segment.price) <= threshold * segment.price
    ELSE 0 <= threshold

\* duffel_validator.py: _validate_segment_impl, from the offers list that
\* _search_offers returned
validate_segment_impl(segment, offers) ==
    IF offers = <<>> THEN SegmentValidation(segment, UNAVAILABLE, 0, {}, {})
    ELSE IF \A i \in 1..Len(offers) : is_placeholder_offer(offers[i])
    THEN SegmentValidation(segment, UNAVAILABLE, 0, {}, {})
    ELSE LET best == find_best_match(segment, offers)
         IN  IF best = {} THEN SegmentValidation(segment, UNAVAILABLE, 0, {}, {})
             ELSE LET best_match == CHOOSE m \in best : TRUE
                  IN  IF confidence(best_match) < min_confidence_threshold * max_score
                      THEN SegmentValidation(segment, UNAVAILABLE,
                                             confidence(best_match), {}, {})
                      ELSE SegmentValidation(segment,
                               IF price_change_within(best_match, segment,
                                                      price_confirmed_threshold)
                               THEN CONFIRMED
                               ELSE IF price_change_within(best_match, segment,
                                                           price_changed_threshold)
                               THEN PRICE_CHANGED
                               ELSE UNAVAILABLE,
                               confidence(best_match), {best_match.price},
                               {best_match.offer_id})

\* validate_segment lines 153-165: the except branch
api_error_result(segment) == SegmentValidation(segment, API_ERROR, 0, {}, {})

\* route_validation_service.py: _aggregate_status with the first two tests
\* swapped
aggregate_status_unavailable_first(segment_validations) ==
    LET statuses == { segment_validations[i].status : i \in 1..Len(segment_validations) }
    IN  IF UNAVAILABLE \in statuses THEN UNAVAILABLE
        ELSE IF API_ERROR \in statuses THEN API_ERROR
        ELSE IF PRICE_CHANGED \in statuses THEN PRICE_CHANGED
        ELSE CONFIRMED

\* route_validation_service.py: _aggregate_status
aggregate_status(segment_validations) ==
    LET statuses == { segment_validations[i].status : i \in 1..Len(segment_validations) }
    IN  IF API_ERROR \in statuses THEN API_ERROR
        ELSE IF UNAVAILABLE \in statuses THEN UNAVAILABLE
        ELSE IF PRICE_CHANGED \in statuses THEN PRICE_CHANGED
        ELSE CONFIRMED

\* route_validation_service.py: _aggregate_validations (status and segments)
aggregate_validations(segment_validations) ==
    IF segment_validations = <<>>
    THEN [status |-> API_ERROR, segments |-> <<>>]
    ELSE [status |-> aggregate_status(segment_validations),
          segments |-> segment_validations]

\* The coroutine of one segment: waiting for the semaphore, with a request
\* in flight, in the backoff sleep, or done.  kinds is the history of the
\* responses it got.
NewTask == [pc |-> "waiting", retries |-> 0, requests |-> 0, kinds |-> <<>>, result |-> {}]

\* validate_route is called with a route of the pool
ValidatorInit ==
    /\ segments \in RoutePool
    /\ task = [i \in 1..Len(segments) |-> NewTask]
    /\ semaphore = max_concurrent_requests
    /\ completion_order = <<>>
    /\ validated_results = <<>>
    /\ route_validation = None
    /\ vpc = "validate_segments"

\* the state of the validator in the runs of the other components
ValidatorOff ==
    /\ segments = <<>>
    /\ task = <<>>
    /\ semaphore = max_concurrent_requests
    /\ completion_order = <<>>
    /\ validated_results = <<>>
    /\ route_validation = None
    /\ vpc = "off"

\* validate_segment returns: the semaphore is released and the task is done
Finish(i, kinds, res) ==
    /\ task' = [task EXCEPT ![i].pc = "done", ![i].kinds = kinds, ![i].result = {res}]
    /\ semaphore' = semaphore + 1
    /\ completion_order' = Append(completion_order, i)

\* Acquire that enters without waiting for a free slot
AcquireUnguarded(i) ==
    /\ vpc = "validate_segments"
    /\ task[i].pc = "waiting"
    /\ semaphore' = semaphore - 1
    /\ task' = [task EXCEPT ![i].pc = "request", ![i].requests = 1]
    /\ UNCHANGED <<segments, completion_order, validated_results, route_validation, vpc>>
    /\ UNCHANGED <<svars, cvars, bvars, evars>>

\* validate_segment line 150, _search_offers lines 276-284: enter the
\* semaphore and send the first request
Acquire(i) ==
    /\ vpc = "validate_segments"
    /\ task[i].pc = "waiting"
    /\ semaphore > 0
    /\ semaphore' = semaphore - 1
    /\ task' = [task EXCEPT ![i].pc = "request", ![i].requests = 1]
    /\ UNCHANGED <<segments, completion_order, validated_results, route_validation, vpc>>
    /\ UNCHANGED <<svars, cvars, bvars, evars>>

\* _search_offers lines 278-317 and all of validate_segment after it: the
\* response of the request in flight arrives
Respond(i) ==
    /\ vpc = "validate_segments"
    /\ task[i].pc = "request"
    /\ \E resp \in Responses :
         LET kinds == Append(task[i].kinds, resp.kind)
         IN  CASE resp.kind = "ok" ->
                    Finish(i, kinds, validate_segment_impl(segments[i], resp.offers))
               [] resp.kind = "rate_limited" ->
                    /\ task' = [task EXCEPT ![i].pc = "sleep",
                                            ![i].retries = @ + 1,
                                            ![i].kinds = kinds]
                    /\ UNCHANGED <<semaphore, completion_order>>
               [] resp.kind = "http_error" ->
                    Finish(i, kinds, validate_segment_impl(segments[i], <<>>))
               [] resp.kind = "timeout" ->
                    IF task[i].retries + 1 > max_retries
                    THEN Finish(i, kinds, api_error_result(segments[i]))
                    ELSE /\ task' = [task EXCEPT ![i].pc = "sleep",
                                                 ![i].retries = @ + 1,
                                                 ![i].kinds = kinds]
                         /\ UNCHANGED <<semaphore, completion_order>>
               [] resp.kind = "exception" ->
                    Finish(i, kinds, api_error_result(segments[i]))
    /\ UNCHANGED <<segments, validated_results, route_validation, vpc>>
    /\ UNCHANGED <<svars, cvars, bvars, evars>>

\* Wake whose loop test lets one more retry through
WakeOneMore(i) ==
    /\ vpc = "validate_segments"
    /\ task[i].pc = "sleep"
    /\ IF task[i].retries <= max_retries + 1
       THEN /\ task' = [task EXCEPT ![i].pc = "request", ![i].requests = @ + 1]
            /\ UNCHANGED <<semaphore, completion_order>>
       ELSE Finish(i, task[i].kinds, validate_segment_impl(segments[i], <<>>))
    /\ UNCHANGED <<segments, validated_results, route_validation, vpc>>
    /\ UNCHANGED <<svars, cvars, bvars, evars>>

\* _search_offers lines 299-300, 314-315, 276, 319: the backoff sleep ends;
\* the loop sends the next request, or leaves with no offers when the
\* retries are used up
Wake(i) ==
    /\ vpc = "validate_segments"
    /\ task[i].pc = "sleep"
    /\ IF task[i].retries <= max_retries
       THEN /\ task' = [task EXCEPT ![i].pc = "request", ![i].requests = @ + 1]
            /\ UNCHANGED <<semaphore, completion_order>>
       ELSE Finish(i, task[i].kinds, validate_segment_impl(segments[i], <<>>))
    /\ UNCHANGED <<segments, validated_results, route_validation, vpc>>
    /\ UNCHANGED <<svars, cvars, bvars, evars>>

\* the result of task i, as asyncio.gather sees it
TaskResult(i) == CHOOSE r \in task[i].result : TRUE

\* gather that hands the results back in the order of completion
gather_as_completed ==
    [k \in 1..Len(segments) |-> TaskResult(completion_order[k])]

\* validate_segments lines 494-513: asyncio.gather and the result list
gather == [i \in 1..Len(segments) |-> TaskResult(i)]

\* validate_segments returns once every coroutine is done
Gather ==
    /\ vpc = "validate_segments"
    /\ \A i \in 1..Len(segments) : task[i].pc = "done"
    /\ validated_results' = gather
    /\ vpc' = "aggregate"
    /\ UNCHANGED <<segments, task, semaphore, completion_order, route_validation>>
    /\ UNCHANGED <<svars, cvars, bvars, evars>>

\* validate_route lines 97-113: aggregate and return
Aggregate ==
    /\ vpc = "aggregate"
    /\ route_validation' = aggregate_validations(validated_results)
    /\ vpc' = "returned"
    /\ UNCHANGED <<segments, task, semaphore, completion_order, validated_results>>
    /\ UNCHANGED <<svars, cvars, bvars, evars>>

ValidatorNext ==
    \/ \E i \in 1..Len(segments) : Acquire(i)
    \/ \E i \in 1..Len(segments) : Respond(i)
    \/ \E i \in 1..Len(segments) : Wake(i)
    \/ Gather
    \/ Aggregate

(***************************************************************************)
(* The flight data expander (flight_data_expander_service.py)              *)
(***************************************************************************)
\* Epoch minutes are floats; the model counts time in half seconds, so that
\* BASE_WEEK_END (Sunday 23:59:59) and the instants after it are integers.
\* Minute is one minute in that unit.
Minute == 120

\* FlightDataExpanderService.MINUTES_PER_DAY
MINUTES_PER_DAY == 24 * 60 * Minute

\* FlightDataExpanderService.MINUTES_PER_WEEK
MINUTES_PER_WEEK == 7 * MINUTES_PER_DAY

\* _to_epoch_minutes(BASE_WEEK_START): 2026-07-13 00:00:00 is 924 days
\* after EPOCH_REFERENCE, 2024-01-01 00:00:00
base_start_minutes == 924 * MINUTES_PER_DAY

\* _to_epoch_minutes(BASE_WEEK_END): 2026-07-19 23:59:59, one second before
\* the next Monday
base_end_minutes == base_start_minutes + MINUTES_PER_WEEK - (Minute \div 60)

\* float("inf"), the default t_max of a search without a return date
float_inf == 2000000000

\* A row of the cached table as the provider builds it; scheduled_departure
\* is a text, kept as its kind and the day it names
ScheduledDeparture(kind, day) == [kind |-> kind, day |-> day]

ExpRow(d, a, dt, at, p) ==
    [departure_airport |-> d, arrival_airport |-> a,
     dep_time |-> base_start_minutes + dt * Minute,
     arr_time |-> base_start_minutes + at * Minute,
     price |-> p, carrier_code |-> "LO"]

WithScheduled(row, text) ==
    [f \in DOMAIN row \cup {"scheduled_departure"} |->
        IF f = "scheduled_departure" THEN text ELSE row[f]]

\* Base-week tables handed to the expander: empty, without the
\* scheduled_departure column, and with it (a date text as the provider
\* writes it, and a text that is no date)
ExpanderTables ==
    { <<>>,
      << ExpRow("A", "B", 600, 780, 150) >>,
      << ExpRow("A", "B", 600, 780, 150), ExpRow("B", "A", 10000, 10070, 175) >>,
      << WithScheduled(ExpRow("A", "B", 600, 780, 150), ScheduledDeparture("date", 924)) >>,
      << WithScheduled(ExpRow("A", "B", 600, 780, 150), ScheduledDeparture("date", 924)),
         WithScheduled(ExpRow("B", "A", 10000, 10070, 175), ScheduledDeparture("text", 0)) >> }

\* Instants a window can start or end at: the epoch (the default t_min),
\* instants before, in and after the base week, the instants just after the
\* end of a week, and no upper end at all (the default t_max)
WindowInstants ==
    { 0,
      base_start_minutes - MINUTES_PER_WEEK - 1,
      base_start_minutes - MINUTES_PER_WEEK,
      base_start_minutes - 1,
      base_start_minutes,
      base_start_minutes + MINUTES_PER_DAY,
      base_end_minutes,
      base_end_minutes + 1,
      base_start_minutes + MINUTES_PER_WEEK,
      base_end_minutes + MINUTES_PER_WEEK,
      base_end_minutes + MINUTES_PER_WEEK + 1,
      base_start_minutes + 2 * MINUTES_PER_WEEK + MINUTES_PER_DAY,
      float_inf }

\* sorted() of a list of integers: the entry at position i goes behind the
\* smaller entries and the equal entries before it (the sort is stable)
sorted(xs) ==
    LET place(i) == Cardinality({ j \in 1..Len(xs) : xs[j] < xs[i] })
                      + Cardinality({ j \in 1..(i - 1) : xs[j] = xs[i] }) + 1
    IN  [k \in 1..Len(xs) |-> xs[CHOOSE i \in 1..Len(xs) : place(i) = k]]

\* get_week_offsets_for_range lines 118-129 without the overlap filter
week_offsets_unfiltered(t_min, t_max) ==
    LET weeks_before == IF t_min < base_start_minutes
                        THEN ((base_start_minutes - t_min) \div MINUTES_PER_WEEK) + 1
                        ELSE 0
        weeks_after == IF t_max > base_end_minutes
                       THEN ((t_max - base_end_minutes) \div MINUTES_PER_WEEK) + 1
                       ELSE 0
    IN  sorted([i \in 1..(weeks_before + weeks_after + 1) |-> (i - 1 - weeks_before) * 7])

\* get_week_offsets_for_range, for a finite window
get_week_offsets_for_range(t_min, t_max) ==
    LET weeks_before == IF t_min < base_start_minutes
                        THEN ((base_start_minutes - t_min) \div MINUTES_PER_WEEK) + 1
                        ELSE 0
        weeks_after == IF t_max > base_end_minutes
                       THEN ((t_max - base_end_minutes) \div MINUTES_PER_WEEK) + 1
                       ELSE 0
        all_offsets == [i \in 1..(weeks_before + weeks_after + 1) |->
                           (i - 1 - weeks_before) * 7]
        overlaps(offset_days) ==
            /\ base_end_minutes + offset_days * MINUTES_PER_DAY >= t_min
            /\ base_start_minutes + offset_days * MINUTES_PER_DAY <= t_max
    IN  sorted(SelectSeq(all_offsets, overlaps))

\* lines 193-205: the text of scheduled_departure moved by offset_days; a
\* text that is no date is coerced to NaT and written back as NaN
shift_scheduled_departure(text, offset_days) ==
    IF text.kind \in {"date", "datetime"}
    THEN ScheduledDeparture("datetime", text.day + offset_days)
    ELSE ScheduledDeparture("nan", 0)

\* the copy of a block that moves every column it finds
shifted_copy_all_columns(df, offset_days) ==
    [i \in 1..Len(df) |->
        [f \in DOMAIN df[i] |->
            CASE f \in {"dep_time", "arr_time", "price"} ->
                     df[i][f] + offset_days * MINUTES_PER_DAY
              [] f = "scheduled_departure" ->
                     shift_scheduled_departure(df[i][f], offset_days)
              [] OTHER -> df[i][f]]]

\* lines 187-205: the copy of the base table for one offset
shifted_copy(df, offset_days) ==
    [i \in 1..Len(df) |->
        [f \in DOMAIN df[i] |->
            CASE f \in {"dep_time", "arr_time"} ->
                     df[i][f] + offset_days * MINUTES_PER_DAY
              [] f = "scheduled_departure" ->
                     shift_scheduled_departure(df[i][f], offset_days)
              [] OTHER -> df[i][f]]]

\* lines 179-207: the blocks, in the order of the offsets
expanded_dfs(df, offs) ==
    [b \in 1..Len(offs) |-> IF offs[b] = 0 THEN df ELSE shifted_copy(df, offs[b])]

\* pd.concat(..., ignore_index=True) of a non-empty list of blocks, which
\* all have the rows of the base table
concat(dfs) ==
    LET rows == Len(dfs[1])
    IN  [j \in 1..(Len(dfs) * rows) |-> dfs[((j - 1) \div rows) + 1][((j - 1) % rows) + 1]]

\* expand_for_date_range is called with a table and a window that
\* TravelConstraints accepted (t_min <= t_max)
ExpanderInit ==
    /\ e_flights_df \in ExpanderTables
    /\ e_t_min \in WindowInstants \ {float_inf}
    /\ e_t_max \in WindowInstants
    /\ e_t_min <= e_t_max
    /\ offsets = <<>>
    /\ expanded = <<>>
    /\ epc = "expand_for_date_range"

\* the state of the expander in the runs of the other components
ExpanderOff ==
    /\ e_flights_df = <<>>
    /\ e_t_min = 0
    /\ e_t_max = 0
    /\ offsets = <<>>
    /\ expanded = <<>>
    /\ epc = "off"

\* expand_for_date_range lines 161-165: the empty table is returned as it
\* is; otherwise the offsets are computed, and int() of an infinite quotient
\* raises OverflowError
ExpandOffsets ==
    /\ epc = "expand_for_date_range"
    /\ IF e_flights_df = <<>>
       THEN /\ expanded' = e_flights_df
            /\ epc' = "returned"
            /\ UNCHANGED offsets
       ELSE IF e_t_max = float_inf
       THEN /\ epc' = "OverflowError"
            /\ UNCHANGED <<offsets, expanded>>
       ELSE /\ offsets' = get_week_offsets_for_range(e_t_min, e_t_max)
            /\ epc' = "offsets"
            /\ UNCHANGED expanded
    /\ UNCHANGED <<e_flights_df, e_t_min, e_t_max>>
    /\ UNCHANGED <<svars, cvars, bvars, vvars>>

\* expand_for_date_range lines 167-219: the fast path, or the blocks and
\* their concatenation; pd.concat raises ValueError on an empty list
ExpandConcat ==
    /\ epc = "offsets"
    /\ IF offsets = << 0 >>
       THEN /\ expanded' = e_flights_df
            /\ epc' = "returned"
       ELSE IF offsets = <<>>
       THEN /\ epc' = "ValueError"
            /\ UNCHANGED expanded
       ELSE /\ expanded' = concat(expanded_dfs(e_flights_df, offsets))
            /\ epc' = "returned"
    /\ UNCHANGED <<e_flights_df, e_t_min, e_t_max, offsets>>
    /\ UNCHANGED <<svars, cvars, bvars, vvars>>

ExpanderNext == ExpandOffsets \/ ExpandConcat

(***************************************************************************)
(* Specifications                                                          *)
(***************************************************************************)
\* one search request; the repository and the graph builder are at rest
Init == SearchInit /\ CacheOff /\ BuildOff /\ ValidatorOff /\ ExpanderOff

Spec == Init /\ [][SearchNext]_vars

\* the repository in service, from construction up to shutdown(), under
\* concurrent callers
CacheSpecInit == CacheInit /\ SearchOff /\ BuildOff /\ ValidatorOff /\ ExpanderOff

CacheSpec == CacheSpecInit /\ [][CacheNext]_vars

\* the repository in service under concurrent callers, shutdown() included
ShutdownSpec == CacheSpecInit /\ [][ShutdownNext]_vars

\* one search request with a minimum stay configured
MinStayInit == SearchInitWith(MinStayChoices) /\ CacheOff /\ BuildOff /\ ValidatorOff /\ ExpanderOff

MinStaySpec == MinStayInit /\ [][SearchNext]_vars

\* a table from the data source, through the schema check, into one search
IngestSpecInit == IngestInit /\ CacheOff /\ BuildOff /\ ValidatorOff /\ ExpanderOff

IngestSpec == IngestSpecInit /\ [][IngestNext]_vars

\* one find_routes call of the adapter on a cached graph
AdapterSpecInit == AdapterInit /\ CacheOff /\ ValidatorOff /\ ExpanderOff

AdapterSpec == AdapterSpecInit /\ [][AdapterNext]_vars

\* one validate_route call of the revalidation service
ValidatorSpecInit == ValidatorInit /\ SearchOff /\ CacheOff /\ BuildOff /\ ExpanderOff

ValidatorSpec == ValidatorSpecInit /\ [][ValidatorNext]_vars

\* the same call under the event loop, which runs every coroutine that can
\* run; every request is answered or times out
ValidatorFairSpec ==
    /\ ValidatorSpecInit
    /\ [][ValidatorNext]_vars
    /\ \A i \in 1..2 :
           /\ WF_vars(i \in DOMAIN task /\ Acquire(i))
           /\ WF_vars(i \in DOMAIN task /\ Respond(i))
           /\ WF_vars(i \in DOMAIN task /\ Wake(i))
    /\ WF_vars(Gather)
    /\ WF_vars(Aggregate)

\* one expand_for_date_range call of the expander
ExpanderSpecInit == ExpanderInit /\ SearchOff /\ CacheOff /\ BuildOff /\ ValidatorOff

ExpanderSpec == ExpanderSpecInit /\ [][ExpanderNext]_vars

\* one search request over tables that may hold a pair of flights A -> B and
\* B -> A that leave and land at the same instant at no price.  Every row
\* passes the core schema: no self loop, arr_time >= dep_time, price >= 0.
CyclePool ==
    << Row("A", "B", 1, 1, 0, 1),
       Row("B", "A", 1, 1, 0, 2),
       Row("B", "C", 1, 2, 1, 3),
       Row("C", "A", 2, 3, 1, 4) >>

CycleTables == { SubSeqOf(CyclePool, keep) : keep \in SUBSET (1..Len(CyclePool)) }

\* the longest chain of flights a label may carry before the model stops
\* following the loop
MaxPathLen == 6

CycleInit ==
    /\ flights_df \in CycleTables
    /\ start_city = "A"
    /\ required_cities \in SUBSET (Cities \ {"A"})
    /\ T_min \in TMinChoices
    /\ T_max \in TMaxChoices
    /\ min_stay_minutes = 0
    /\ data_expander = FALSE
    /\ flights_by_city = GroupByCity(flights_df)
    /\ labels = [k \in Cities \X (SUBSET required_cities) |-> <<>>]
    /\ pq = {}
    /\ solutions = <<>>
    /\ result = <<>>
    /\ pc = "validate"

TerminationSpecInit == CycleInit /\ CacheOff /\ BuildOff /\ ValidatorOff /\ ExpanderOff

\* alg.py lines 196-237: one iteration of the while loop, followed while
\* every queued label carries at most MaxPathLen flights
BoundedSearchPop ==
    /\ \A l \in pq : Len(l.path) <= MaxPathLen
    /\ SearchPop

TerminationNext == SearchStart \/ BoundedSearchPop \/ SearchReturn

TerminationSpec == TerminationSpecInit /\ [][TerminationNext]_vars

\* find_optimal_routes is straight-line code around one while loop: each
\* step that can be taken is taken
TerminationFairSpec ==
    /\ TerminationSpec
    /\ WF_vars(SearchStart)
    /\ WF_vars(BoundedSearchPop)
    /\ WF_vars(SearchReturn)

\* one run of _build_graph
BuildSpecInit == BuildInit /\ SearchOff /\ CacheOff /\ ValidatorOff /\ ExpanderOff

BuildSpec == BuildSpecInit /\ [][BuildRun]_vars

(***************************************************************************)
(* Itineraries, defined on the flight table alone                          *)
(***************************************************************************)
WalkEndCity(w) == IF w = <<>> THEN start_city ELSE w[Len(w)].arrival_airport

WalkEndTime(w) == IF w = <<>> THEN T_min ELSE w[Len(w)].arr_time

\* chains of at most k flights that leave the origin no earlier than T_min,
\* connect in place and time, and arrive no later than T_max
RECURSIVE Walks(_)
Walks(k) ==
    IF k = 0 THEN { <<>> }
    ELSE LET shorter == Walks(k - 1)
         IN  shorter \cup
             { Append(w, r) : <<w, r>> \in
                 { x \in shorter \X SeqToSet(flights_df) :
                     /\ Len(x[1]) = k - 1
                     /\ x[2].departure_airport = WalkEndCity(x[1])
                     /\ x[2].dep_time >= WalkEndTime(x[1])
                     /\ x[2].arr_time <= T_max } }

WalkVisited(w) == { w[i].arrival_airport : i \in 1..Len(w) }

RECURSIVE WalkCost(_)
WalkCost(w) == IF w = <<>> THEN 0 ELSE w[Len(w)].price + WalkCost(SubSeq(w, 1, Len(w) - 1))

WalkElapsed(w) == IF w = <<>> THEN 0 ELSE w[Len(w)].arr_time - w[1].dep_time

\* feasible round trips: origin -> every required city -> origin
Tours ==
    { w \in Walks(MaxSegs) :
        /\ T_min <= T_max
        /\ WalkEndCity(w) = start_city
        /\ required_cities \subseteq WalkVisited(w) }

\* (c1, t1) dominates (c2, t2): no worse in both, better in one
ParetoDom(c1, t1, c2, t2) == c1 <= c2 /\ t1 <= t2 /\ (c1 < c2 \/ t1 < t2)

TourDomElapsed(w1, w2) ==
    ParetoDom(WalkCost(w1), WalkElapsed(w1), WalkCost(w2), WalkElapsed(w2))

TourDomArrival(w1, w2) ==
    ParetoDom(WalkCost(w1), WalkEndTime(w1), WalkCost(w2), WalkEndTime(w2))

Returned == { reconstruct_path(result[i]) : i \in 1..Len(result) }

\* C1 as stated: the search returns every feasible round trip that no other
\* feasible round trip dominates on (total price, elapsed time).
C1_AllElapsedOptimaReturned ==
    pc = "done" =>
        \A w \in Tours :
            (~\E w2 \in Tours : TourDomElapsed(w2, w)) => w \in Returned

\* C1 amended: when the search returns, every feasible round trip that no
\* other feasible round trip dominates on (total price, final arrival time)
\* is represented in the result by a solution with the same total price and
\* the same final arrival time.
C1_ArrivalFrontReturned ==
    pc = "done" =>
        \A w \in Tours :
            (~\E w2 \in Tours : TourDomArrival(w2, w)) =>
                \E i \in 1..Len(result) :
                    /\ result[i].cost = WalkCost(w)
                    /\ result[i].time = WalkEndTime(w)

\* a search that returned two solutions although four or more round trips
\* were feasible, one of them not returned
C1_Witness ==
    /\ pc = "done"
    /\ Len(result) >= 2
    /\ Cardinality(Tours) >= 4
    /\ \E w \in Tours : w \notin Returned /\ Len(w) >= 2

\* C2 as stated: no returned solution dominates another returned solution
\* on (total_cost, elapsed), elapsed = last arrival - first departure.
C2_NoElapsedDominance ==
    pc = "done" =>
        \A i, j \in 1..Len(result) :
            i # j => ~TourDomElapsed(reconstruct_path(result[i]),
                                     reconstruct_path(result[j]))

\* C2 amended: no returned solution dominates another returned solution on
\* (total_cost, final arrival time).
C2_NoArrivalDominance ==
    pc = "done" =>
        \A i, j \in 1..Len(result) :
            i # j => ~ParetoDom(result[i].cost, result[i].time,
                                result[j].cost, result[j].time)

\* two solutions returned after the sweep dropped a recorded candidate
C2_Witness ==
    /\ pc = "done"
    /\ Len(result) >= 2
    /\ Len(solutions) > Len(result)

WellFormedTour(s) ==
    /\ \A i \in 1..(Len(s) - 1) :
          /\ s[i].arrival_airport = s[i + 1].departure_airport
          /\ s[i].arr_time <= s[i + 1].dep_time
    /\ (s # <<>> => s[1].departure_airport = start_city)
    /\ (s # <<>> => s[Len(s)].arrival_airport = start_city)
    /\ required_cities \subseteq WalkVisited(s)

\* C3: every returned solution is a well-formed tour: consecutive segments
\* connect in place and time, it starts and ends at the origin, and it
\* visits every required city.
C3_ReturnedToursWellFormed ==
    pc = "done" => \A i \in 1..Len(result) : WellFormedTour(reconstruct_path(result[i]))

\* a returned tour of three or more segments through two required cities
C3_Witness ==
    /\ pc = "done"
    /\ Cardinality(required_cities) = 2
    /\ \E i \in 1..Len(result) : Len(reconstruct_path(result[i])) >= 3

(***************************************************************************)
(* Claims about the repository                                             *)
(***************************************************************************)
IsError(v) == v = GraphNotInitializedError

IsGraph(v) == v # None /\ v # Ok /\ ~IsError(v)

\* thread t ran get_graph() and the call is over
Returned_get_graph(t) == t_op[t] = "get_graph" /\ tpc[t] = "idle" /\ t_ret[t] # None

\* inside the synchronous build of the cold start (lines 389, 431)
ColdBuilding(t) == tpc[t] \in {"cold_fetch", "cold_set"}

\* t needs _refresh_lock while another thread holds it across its build
WaitsForBuild(t) ==
    /\ tpc[t] \in {"trigger", "cold_lock"}
    /\ refresh_lock \in Threads \ {t}
    /\ \E u \in Threads : u = refresh_lock /\ ColdBuilding(u)

\* C4 as stated: a get_graph() call that begins after the first successful
\* load never builds synchronously and never waits for a build in progress.
C4_NeverWaitsAfterFirstLoad ==
    \A t \in Threads :
        (t_op[t] = "get_graph" /\ tpc[t] # "idle" /\ t_loaded[t]) =>
            (~ColdBuilding(t) /\ ~WaitsForBuild(t))

\* a graph as _build_graph returns it for some provider table
IsBuiltGraph(g) ==
    \E df \in ProviderTables : \E at \in 0..MaxClock : g \in BuildGraphs(df, at)

\* C5: whatever the interleaving with a refresh, a graph returned by
\* get_graph() is one fully constructed graph version: it is a complete
\* result of _build_graph, never a graph whose parts are still missing.
C5_ReadersSeeBuiltGraphs ==
    \A t \in Threads :
        (Returned_get_graph(t) /\ ~IsError(t_ret[t])) => IsBuiltGraph(t_ret[t])

\* a reader got the old graph back while the executor holds a new one that
\* it has not stored yet
C5_Witness ==
    /\ wpc = "set"
    /\ \E t \in Threads :
          /\ Returned_get_graph(t)
          /\ IsGraph(t_ret[t])
          /\ t_ret[t] = cache_graph
          /\ t_ret[t] # w_graph

RefreshesPending ==
    Cardinality({ t \in Threads : tpc[t] = "submit" })
      + executor_queue + (IF wpc = "idle" THEN 0 ELSE 1)

\* C6: at any time at most one background refresh is about to be submitted,
\* queued on the executor or running.
C6_AtMostOneRefresh == RefreshesPending <= 1

\* two callers are at the trigger while a refresh is running
C6_Witness ==
    /\ wpc \in {"fetch", "build", "set"}
    /\ \A t \in Threads : tpc[t] = "trigger"

\* C7: the step in which a background refresh fails, and the finally step
\* after it, leave the published graph as it was; and a get_graph() call that
\* read a published graph returns that graph and does not raise.
C7_FailedRefreshKeepsGraph ==
    [][ /\ ((~w_failed /\ w_failed') => cache_graph' = cache_graph)
        /\ ((w_failed /\ ~w_failed') => cache_graph' = cache_graph)
        /\ \A t \in Threads :
              (/\ t_op[t] = "get_graph"
               /\ tpc[t] \in {"get_stale", "trigger", "submit"}
               /\ tpc'[t] = "idle")
              => (t_ret'[t] = t_cached[t] /\ IsGraph(t_ret'[t])) ]_vars

\* after a failed refresh a graph is still published and a caller got it back
C7_Witness ==
    /\ w_last_failed
    /\ wpc = "idle"
    /\ cache_graph # None
    /\ \E t \in Threads : Returned_get_graph(t) /\ t_ret[t] = cache_graph

\* C8 as stated: get_graph() raises GraphNotInitializedError only when its
\* cold-start build failed; in every other case it returns a graph.
C8_RaisesOnlyOnFailedColdStart ==
    \A t \in Threads :
        Returned_get_graph(t) =>
            IF t_cold_failed[t] THEN IsError(t_ret[t]) ELSE IsGraph(t_ret[t])

\* no refresh is submitted, queued or running
NoRefreshActive == RefreshesPending = 0

\* C9: a get_graph() call that finds the cached graph stale goes to the
\* trigger; when no refresh is pending there, it sets the flag and submits a
\* rebuild to the executor - also after earlier refreshes have finished,
\* whether they succeeded or failed.
C9_StaleReadSchedulesRebuild ==
    [][ \A t \in Threads :
          t_op[t] = "get_graph" =>
            /\ (tpc[t] = "get_stale" /\ tpc'[t] # "get_stale" /\ auto_refresh /\ is_stale)
                  => tpc'[t] = "trigger"
            /\ (tpc[t] = "trigger" /\ tpc'[t] # "trigger" /\ NoRefreshActive)
                  => (tpc'[t] = "submit" /\ refresh_in_progress')
            /\ (tpc[t] = "submit" /\ tpc'[t] # "submit")
                  => executor_queue' = executor_queue + 1 ]_vars

\* a stale read has submitted a rebuild after the previous refresh failed
C9_Witness ==
    /\ w_last_failed
    /\ executor_queue = 1
    /\ wpc = "idle"
    /\ \E t \in Threads : Returned_get_graph(t) /\ IsGraph(t_ret[t])

RowRange(ci) == ci.start .. (ci.end - 1)

\* C10: in a built graph the table is sorted by departure airport, the
\* city-index ranges are pairwise disjoint half-open ranges whose union is
\* [0, row_count), and every row in the range of city c departs from c.
C10_IndexPartitionsSortedTable ==
    b_graph # None =>
        LET g == b_graph
            idx == g.city_index
        IN  /\ IsSortedByDeparture(g.flights_df)
            /\ g.row_count = Len(g.flights_df)
            /\ \A c \in DOMAIN idx : 0 <= idx[c].start /\ idx[c].start < idx[c].end
            /\ \A c, d \in DOMAIN idx : c # d => RowRange(idx[c]) \cap RowRange(idx[d]) = {}
            /\ UNION { RowRange(idx[c]) : c \in DOMAIN idx } = 0 .. (g.row_count - 1)
            /\ \A c \in DOMAIN idx : \A k \in RowRange(idx[c]) :
                  g.flights_df[k + 1].departure_airport = c

\* a graph built from an unsorted table in which one airport has two rows
C10_Witness ==
    /\ b_graph # None
    /\ ~IsSortedByDeparture(b_input)
    /\ \E c \in DOMAIN b_graph.city_index :
          b_graph.city_index[c].end - b_graph.city_index[c].start >= 2
    /\ Cardinality(DOMAIN b_graph.city_index) >= 2

(***************************************************************************)
(* Frontier, input checks and pruning                                      *)
(***************************************************************************)
Frontier(key) == labels[key]

\* C11: at every point of a search, for every key (city, visited), no label
\* of that key's frontier is dominated (no worse in cost and time, better in
\* one) by another label of the same frontier.
C11_FrontierNonDominated ==
    \A key \in DOMAIN labels :
        \A i, j \in 1..Len(Frontier(key)) :
            i # j => ~ParetoDom(Frontier(key)[i].cost, Frontier(key)[i].time,
                                Frontier(key)[j].cost, Frontier(key)[j].time)

\* an insertion has evicted a label that is still on the heap, and the
\* frontier of its key holds two labels
C11_Witness ==
    \E l \in pq :
        /\ l \notin SeqToSet(Frontier(LabelKey(l)))
        /\ Len(Frontier(LabelKey(l))) >= 2

\* the stay the claim requires before leaving the city reached by segment i
RequiredStay(city) == IF city \in required_cities THEN min_stay_minutes ELSE 0

HasSelfLoop(df) == \E i \in 1..Len(df) : df[i].departure_airport = df[i].arrival_airport

HasNegativePrice(df) == \E i \in 1..Len(df) : df[i].price < 0

HasArrivalBeforeDeparture(df) == \E i \in 1..Len(df) : df[i].arr_time < df[i].dep_time

\* the search has taken a step on the table: the seed label is in place
SearchRanOn == pc \in {"loop", "done"}

\* C13: a table with a self loop, a negative price or a row that
\* arrives before it departs is rejected before any search step runs on it.
C13_BadRowsRejected ==
    (HasSelfLoop(flights_df) \/ HasNegativePrice(flights_df)
        \/ HasArrivalBeforeDeparture(flights_df)) => ~SearchRanOn

\* C14 as stated: a search over an empty flight table completes (it never
\* ends in an error) and yields no solutions.
C14_EmptyTableCompletes ==
    flights_df = <<>> =>
        /\ pc \in {"validate", "loop", "done"}
        /\ pc = "done" => result = <<>>

\* C14 as amended: a search over an empty flight table is rejected by the
\* input validation with EmptyFlightsError, whatever the other arguments are,
\* before any label is created; it returns no solutions.
C14_EmptyTableRaises ==
    (flights_df = <<>> /\ pc # "validate") =>
        /\ pc = "EmptyFlightsError"
        /\ pq = {}
        /\ solutions = <<>>
        /\ result = <<>>

\* an empty table was rejected as empty although the time window is invalid too
C14_Witness ==
    /\ flights_df = <<>>
    /\ pc = "EmptyFlightsError"
    /\ T_min > T_max

\* the longest chain of flights a table of the adapter runs can hold
PruneSegs == Len(PrunePool)

\* chains of at most k flights of the unpruned table of the graph
RECURSIVE GraphWalks(_)
GraphWalks(k) ==
    IF k = 0 THEN { <<>> }
    ELSE LET shorter == GraphWalks(k - 1)
         IN  shorter \cup
             { Append(w, r) : <<w, r>> \in
                 { x \in shorter \X SeqToSet(b_graph.flights_df) :
                     /\ Len(x[1]) = k - 1
                     /\ x[2].departure_airport = WalkEndCity(x[1])
                     /\ x[2].dep_time >= WalkEndTime(x[1])
                     /\ x[2].arr_time <= T_max } }

\* feasible round trips of the unpruned table that end at the first return
\* to the origin with every required city visited
GraphTours ==
    { w \in GraphWalks(PruneSegs) :
        /\ WalkEndCity(w) = start_city
        /\ required_cities \subseteq WalkVisited(w) }

\* what the search on the unpruned table returns: the (price, arrival)
\* pairs of the round trips no other round trip dominates
UnprunedFront ==
    { <<WalkCost(w), WalkEndTime(w)>> : w \in
        { v \in GraphTours : ~\E w2 \in GraphTours : TourDomArrival(w2, v) } }

ReturnedFront == { <<result[i].cost, result[i].time>> : i \in 1..Len(result) }

\* C15: the search run behind the K-hop prune returns the routes that the
\* search on the unpruned table returns - the same (price, arrival) pairs,
\* each by a round trip of the unpruned table - and it fails validation only
\* when the unpruned table does.
C15_PruneIsPureOptimization ==
    /\ pc = "done" => (ReturnedFront = UnprunedFront /\ Returned \subseteq GraphTours)
    /\ pc \notin {"find_routes", "validate", "loop", "done"} =>
           validate_dijkstra_inputs(b_graph.flights_df, start_city, required_cities,
                                    T_min, T_max) # "ok"

\* the segment validations whose coroutine has returned
DoneTasks == { i \in DOMAIN task : task[i].pc = "done" }

\* every response the coroutine of segment i got was of the given kind, and
\* it used up its retries
AllAttemptsWere(i, kind) ==
    /\ Len(task[i].kinds) = max_retries + 1
    /\ \A k \in 1..Len(task[i].kinds) : task[i].kinds[k] = kind

\* C16: a segment whose offer request was answered with HTTP 429 on every
\* attempt up to the retry cap, or timed out on every attempt up to
\* max_retries, is reported with status ApiError.
C16_PersistentFailureIsApiError ==
    \A i \in DoneTasks :
        (AllAttemptsWere(i, "rate_limited") \/ AllAttemptsWere(i, "timeout"))
            => TaskResult(i).status = API_ERROR

\* the request of segment i ended in a fault: the last thing it got was not
\* a 2xx response
EndedInFault(i) == task[i].kinds[Len(task[i].kinds)] # "ok"

\* C17: validate_route returns a RouteValidation with one result per input
\* segment, and every segment whose request ended in a revalidator error
\* (rate limit, timeout, HTTP error, broken connection or payload) has
\* status ApiError in it.
C17_FaultsDemotedToApiError ==
    vpc = "returned" =>
        /\ route_validation # None
        /\ Len(route_validation.segments) = Len(segments)
        /\ \A i \in 1..Len(segments) :
               EndedInFault(i) => route_validation.segments[i].status = API_ERROR

ValidateSegmentsReturned == vpc \in {"aggregate", "returned"}

\* C18: the i-th result of validate_segments is the result of the coroutine
\* of the i-th input segment and carries its index and cached price,
\* whatever the order in which the coroutines finished.
C18_ResultsInInputOrder ==
    ValidateSegmentsReturned =>
        /\ Len(validated_results) = Len(segments)
        /\ \A i \in 1..Len(segments) :
               /\ validated_results[i] = TaskResult(i)
               /\ validated_results[i].segment_index = segments[i].segment_index
               /\ validated_results[i].cached_price = segments[i].price

\* the second segment finished first, the first one needed a retry, and one
\* of the two failed
C18_Witness ==
    /\ vpc = "returned"
    /\ completion_order = <<2, 1>>
    /\ task[1].retries > 0
    /\ \E i \in 1..2 : validated_results[i].status = API_ERROR
    /\ \E i \in 1..2 : validated_results[i].status = CONFIRMED

StatusRank(status) ==
    CASE status = API_ERROR -> 4
      [] status = UNAVAILABLE -> 3
      [] status = PRICE_CHANGED -> 2
      [] status = CONFIRMED -> 1

WorstStatus(segment_validations) ==
    CHOOSE s \in { segment_validations[i].status : i \in 1..Len(segment_validations) } :
        \A i \in 1..Len(segment_validations) :
            StatusRank(s) >= StatusRank(segment_validations[i].status)

Permuted(xs) ==
    { [i \in 1..Len(xs) |-> xs[p[i]]] : p \in Permutations(1..Len(xs)) }

\* C19: the status of the aggregated route is the worst of its segment
\* statuses under ApiError > Unavailable > PriceChanged > Confirmed, and
\* every permutation of the segment results aggregates to the same status.
C19_WorstStatusWins ==
    vpc = "returned" =>
        /\ route_validation.status = WorstStatus(validated_results)
        /\ \A ys \in Permuted(validated_results) :
               aggregate_status(ys) = route_validation.status

\* a route of two segments with an unavailable segment before a failed one
C19_Witness ==
    /\ vpc = "returned"
    /\ Len(validated_results) = 2
    /\ validated_results[1].status = UNAVAILABLE
    /\ validated_results[2].status = API_ERROR
    /\ route_validation.status = API_ERROR

\* the status the price rule gives for a live and a cached price
PriceRule(live, cached) ==
    IF 100 * Abs(live - cached) <= 5 * cached THEN CONFIRMED
    ELSE IF 100 * Abs(live - cached) <= 25 * cached THEN PRICE_CHANGED
    ELSE UNAVAILABLE

\* C20: a segment with a matched offer at or above the confidence threshold
\* is Confirmed when |live - cached| is at most 5% of the cached price,
\* PriceChanged when it is above 5% and at most 25%, Unavailable otherwise.
C20_PriceThresholds ==
    \A i \in DoneTasks :
        TaskResult(i).live_price # {} =>
            \A live \in TaskResult(i).live_price :
                TaskResult(i).status = PriceRule(live, TaskResult(i).cached_price)

\* the offer requests that are on the wire
InFlight == { i \in DOMAIN task : task[i].pc = "request" }

\* C21: at every instant at most max_concurrent_requests offer requests of
\* the validator are in flight, however many segments are validated in
\* parallel.
C21_InFlightBounded == Cardinality(InFlight) <= max_concurrent_requests

\* more segments than slots: every slot is taken by a request in flight
\* while another segment waits
C21_Witness ==
    /\ Cardinality(InFlight) = max_concurrent_requests
    /\ semaphore = 0
    /\ \E i \in DOMAIN task : task[i].pc = "waiting"

\* C28: one segment validation sends at most max_retries + 1 offer
\* requests, whatever mix of 429 responses and timeouts it gets, and then
\* returns a result.
C28_RequestsBoundedThenResult ==
    /\ [](\A i \in DOMAIN task : task[i].requests <= max_retries + 1)
    /\ <>(\A i \in DOMAIN task : task[i].pc = "done" /\ task[i].result # {})

\* a validation that has sent max_retries + 1 requests, answered by both
\* 429 responses and timeouts, and has returned
C28_Witness ==
    \E i \in DoneTasks :
        /\ task[i].requests = max_retries + 1
        /\ \E k \in 1..Len(task[i].kinds) : task[i].kinds[k] = "rate_limited"
        /\ \E k \in 1..Len(task[i].kinds) : task[i].kinds[k] = "timeout"
        /\ task[i].result # {}

\* get_week_offsets_for_range has returned in this call
OffsetsReturned ==
    \/ epc \in {"offsets", "ValueError"}
    \/ epc = "returned" /\ e_flights_df # <<>>

\* the base week moved by k days meets the window
WeekIntersects(k) ==
    LET week_start == base_start_minutes + k * 1440 * Minute
        week_end == base_end_minutes + k * 1440 * Minute
        low == IF week_start > e_t_min THEN week_start ELSE e_t_min
        high == IF week_end < e_t_max THEN week_end ELSE e_t_max
    IN  low <= high

\* whole weeks, as day offsets, from two weeks before the window to two
\* weeks after it
CandidateOffsets ==
    { 7 * j : j \in (((e_t_min - base_start_minutes) \div (7 * 1440 * Minute)) - 2)
                     .. (((e_t_max - base_start_minutes) \div (7 * 1440 * Minute)) + 2) }

OffsetSet == { offsets[i] : i \in 1..Len(offsets) }

\* C22: the list get_week_offsets_for_range returns is sorted, holds only
\* multiples of 7, and holds a day offset k exactly if the base week moved
\* by k days intersects [t_min, t_max].
C22_OffsetsAreIntersectingWeeks ==
    OffsetsReturned =>
        /\ \A i, j \in 1..Len(offsets) : i < j => offsets[i] < offsets[j]
        /\ \A i \in 1..Len(offsets) : offsets[i] % 7 = 0
        /\ OffsetSet \subseteq CandidateOffsets
        /\ \A k \in CandidateOffsets : k \in OffsetSet <=> WeekIntersects(k)

\* a window from before the base week to after it, whose candidate weeks
\* are not all needed
C22_Witness ==
    /\ OffsetsReturned
    /\ Len(offsets) >= 3
    /\ offsets[1] < 0
    /\ offsets[Len(offsets)] > 0
    /\ e_t_max > base_end_minutes + 7 * 1440 * Minute
    /\ e_t_max < base_start_minutes + 2 * 7 * 1440 * Minute

\* the call returned a table built from more than the base week alone
ExpandedReturned ==
    /\ epc = "returned"
    /\ e_flights_df # <<>>
    /\ offsets # << 0 >>

\* row r of the block of the b-th offset
BlockRow(b, r) == expanded[(b - 1) * Len(e_flights_df) + r]

ShiftedText(text, k) ==
    IF k = 0 THEN text
    ELSE IF text.kind \in {"date", "datetime"}
    THEN [kind |-> "datetime", day |-> text.day + k]
    ELSE [kind |-> "nan", day |-> 0]

C29_ExpandNeverRaises ==
    (e_flights_df # <<>> /\ e_t_min <= e_t_max) =>
        epc \notin {"ValueError", "OverflowError"}

C25_PopsInKeyOrder ==
    [][(pc = "loop" /\ pq' # pq) =>
          \A l \in pq \ pq' : \A m \in pq' : ~KeyLess(m, l)]_vars

\* callers inside the _build_graph call of a cold start
ColdBuilders == { t \in Threads : tpc[t] \in {"cold_fetch", "cold_set"} }

\* the executor thread is inside the _build_graph call of a background refresh
WorkerBuilding == wpc \in {"fetch", "build"}

\* C26: at most one graph build runs at any time: a synchronous cold-start
\* build and a background refresh build never execute concurrently, under any
\* interleaving of get_graph(), force_refresh() and invalidate().
C26_AtMostOneBuild ==
    Cardinality(ColdBuilders) + (IF WorkerBuilding THEN 1 ELSE 0) <= 1

\* a step that publishes the graph of the executor thread
WorkerPublishes == wpc = "set" /\ wpc' = "finally"

\* a step that publishes the graph of the cold start of t
ColdPublishes(t) == tpc[t] = "cold_set" /\ tpc'[t] = "cold_unlock"

\* C27: published graphs never go backwards: once a graph built from some
\* provider fetch has been published, no graph built from an earlier fetch is
\* published after it, and after invalidate() no graph whose fetch began
\* before the invalidate is put into the cache that get_graph() serves.
C27_PublishedNeverGoesBack ==
    [][/\ WorkerPublishes => ~w_superseded
       /\ \A t \in Threads : ColdPublishes(t) => ~c_superseded]_vars

\* a refresh task is queued, running, or about to be submitted by the caller
\* that set the flag
RefreshPending ==
    \/ executor_queue > 0
    \/ wpc # "idle"
    \/ \E t \in Threads : tpc[t] = "submit"

\* C30: whenever the refresh in-progress flag is set, a refresh task is queued
\* or running on the worker (or its submission is under way), so the flag is
\* eventually cleared; it is never left set with no refresh pending, also when
\* scheduling happens after shutdown().
C30_FlagHasPendingRefresh == refresh_in_progress => RefreshPending

====
